---- MODULE Spec2Model ----
(***************************************************************************)
(* Model of the aggregation and weighted-statistics core of                *)
(* spm_decomposition: the unit mapper (poverty.py, programs.py), the       *)
(* weighted quantile grouper and the tax gap by decile (tax_gap.py), the    *)
(* counterfactual program effect (programs.py) and the child poverty rate  *)
(* (poverty.py).                                                           *)
(*                                                                         *)
(* Arrays are sequences indexed from 1 (row i of numpy is index i+1).      *)
(* Amounts and weights are integers and every quotient is kept as an exact *)
(* fraction [n, d] with d > 0, so comparisons are those of exact           *)
(* arithmetic; the rounding of 64-bit floats is not modelled.              *)
(* A Python exception is a result whose status names the exception.        *)
(***************************************************************************)
EXTENDS Integers, Sequences, FiniteSets, TLC

VARIABLES sim, call, result

vars == <<sim, call, result>>

(***************************************************************************)
(* Bounds of the model.                                                    *)
(***************************************************************************)
MaxPersons == 2
MaxUnits == 2

\* unit identifiers are opaque keys; one more id than rows, so that an id
\* can be absent from a full table
Ids == 1..(MaxUnits + 1)
\* amounts carried by persons and units in the unit mapper
Amounts == {0, 1, 2}

(***************************************************************************)
(* Generic helpers.                                                        *)
(***************************************************************************)
Range(s) == {s[i] : i \in DOMAIN s}

SeqsUpTo(S, n) == UNION {[1..k -> S] : k \in 1..n}

RECURSIVE SumTo(_, _)
SumTo(s, k) == IF k = 0 THEN 0 ELSE SumTo(s, k - 1) + s[k]

\* ndarray.sum()
Sum(s) == SumTo(s, Len(s))

Max(S) == CHOOSE x \in S : \A y \in S : y <= x

Ok(v) == [status |-> "ok", value |-> v]

Raise(e) == [status |-> e]

\* the entries of a selected by the boolean mask m, in order: a[m]
RECURSIVE MaskTo(_, _, _)
MaskTo(a, m, k) ==
    IF k = 0 THEN <<>>
    ELSE IF m[k] THEN Append(MaskTo(a, m, k - 1), a[k])
    ELSE MaskTo(a, m, k - 1)

Mask(a, m) == MaskTo(a, m, Len(a))

\* a * b, element by element
Times(a, b) == [i \in DOMAIN a |-> a[i] * b[i]]

\* an exact fraction n / d, d > 0
Rat(n, d) == [n |-> n, d |-> d]

RatLeq(x, y) == x.n * y.d <= y.n * x.d

RatLess(x, y) == x.n * y.d < y.n * x.d

RatEq(x, y) == x.n * y.d = y.n * x.d

\* x - y, over the common denominator when the two have one
RatSub(x, y) ==
    IF x.d = y.d THEN Rat(x.n - y.n, x.d)
    ELSE Rat(x.n * y.d - y.n * x.d, x.d * y.d)

\* the float 0.0
Zero == Rat(0, 1)

\* the weighted sum left undivided: sum(a * w)
AverageUndivided(a, w) ==
    IF Sum(w) = 0
    THEN Raise("ZeroDivisionError")
    ELSE Ok(Rat(Sum(Times(a, w)), 1))

\* np.average(a, weights=w): sum(a * w) / sum(w); weights that sum to zero
\* (an empty selection included) raise ZeroDivisionError
Average(a, w) ==
    IF Sum(w) = 0
    THEN Raise("ZeroDivisionError")
    ELSE Ok(Rat(Sum(Times(a, w)), Sum(w)))

\* 10 ** k
RECURSIVE Pow10(_)
Pow10(k) == IF k = 0 THEN 1 ELSE 10 * Pow10(k - 1)

\* the integer nearest to n / d (d > 0), a tie going to the even one
NearestInt(n, d) ==
    LET q == n \div d
        r == n % d
    IN  IF 2 * r < d THEN q
        ELSE IF 2 * r > d THEN q + 1
        ELSE IF q % 2 = 0 THEN q ELSE q + 1

\* round(x, ndigits)
Round(x, ndigits) ==
    Rat(NearestInt(x.n * Pow10(ndigits), x.d), Pow10(ndigits))

\* round(x)
RoundInt(x) == NearestInt(x.n, x.d)

(***************************************************************************)
(* The provider: sim.calc(variable, period).values.  A variable listed in  *)
(* sim.missing is unknown to the provider and calc raises.                 *)
(***************************************************************************)
EmptySim ==
    [ missing |-> {},
      spm_unit_id |-> <<>>,
      person_spm_unit_id |-> <<>>,
      tax_unit_id |-> <<>>,
      person_tax_unit_id |-> <<>>,
      is_child |-> <<>>,
      person_weight |-> <<>>,
      person_in_poverty |-> <<>>,
      spm_unit_weight |-> <<>>,
      spm_unit_net_income |-> <<>>,
      spm_unit_net_income_reported |-> <<>>,
      spm_unit_spm_threshold |-> <<>>,
      snap |-> <<>>,
      social_security |-> <<>>,
      ssi |-> <<>>,
      spm_unit_capped_housing_subsidy |-> <<>>,
      free_school_meals |-> <<>>,
      reduced_price_school_meals |-> <<>>,
      eitc |-> <<>>,
      refundable_ctc |-> <<>>,
      spm_unit_total_income_reported |-> <<>>,
      spm_unit_federal_tax |-> <<>>,
      spm_unit_federal_tax_reported |-> <<>>,
      age |-> <<>>,
      cps_race |-> <<>>,
      is_hispanic |-> <<>>,
      tax_unit_is_joint |-> <<>> ]

\* whether sim.calc(var) answers; it raises for a variable it does not know
Has(s, var) == var \notin s.missing

\* sim.calc(var, period).values of a variable the provider knows
Calc(s, var) == s[var]

\* the first variable of vs the provider does not know, as the exception
\* its calc raises
MissingOf(s, vs) ==
    LET i == CHOOSE i \in DOMAIN vs :
                 /\ ~Has(s, vs[i])
                 /\ \A j \in 1..(i - 1) : Has(s, vs[j])
    IN  [status |-> "VariableNotFound", variable |-> vs[i]]

HasAll(s, vs) == \A i \in DOMAIN vs : Has(s, vs[i])

(***************************************************************************)
(* Unit mapper.                                                            *)
(***************************************************************************)
\* {int(sid): i for i, sid in enumerate(ids)} enumerated over the reversed
\* table: the row of an id is counted from the wrong end
IdToIdxReversed(ids) ==
    [k \in Range(ids) |-> Len(ids) + 1 - Max({i \in DOMAIN ids : ids[i] = k})]

\* {int(sid): i for i, sid in enumerate(ids)}: a later row with the same id
\* overwrites an earlier one
IdToIdx(ids) ==
    [k \in Range(ids) |-> Max({i \in DOMAIN ids : ids[i] = k})]

\* the lookup made by position: person p receives the value of row p of
\* the unit table, whatever the id of its unit
MapSpmToPersonByPosition(s, spm_values) ==
    LET person_spm_unit_id == Calc(s, "person_spm_unit_id")
    IN  IF ~HasAll(s, <<"spm_unit_id", "person_spm_unit_id">>)
        THEN MissingOf(s, <<"spm_unit_id", "person_spm_unit_id">>)
        ELSE IF \E p \in DOMAIN person_spm_unit_id :
              person_spm_unit_id[p] \notin Range(Calc(s, "spm_unit_id"))
        THEN Raise("KeyError")
        ELSE Ok([p \in DOMAIN person_spm_unit_id |->
                    IF p \in DOMAIN spm_values THEN spm_values[p] ELSE 0])

\* the lookup made with spm_id_to_idx.get(int(pid), 0): a person whose unit
\* id is absent from the table receives the value of the first row
MapSpmToPersonDefault(s, spm_values) ==
    LET spm_unit_id == Calc(s, "spm_unit_id")
        person_spm_unit_id == Calc(s, "person_spm_unit_id")
    IN  IF ~HasAll(s, <<"spm_unit_id", "person_spm_unit_id">>)
        THEN MissingOf(s, <<"spm_unit_id", "person_spm_unit_id">>)
        ELSE Ok([p \in DOMAIN person_spm_unit_id |->
                    IF person_spm_unit_id[p] \in Range(spm_unit_id)
                    THEN spm_values[Max({i \in DOMAIN spm_unit_id :
                                  spm_unit_id[i] = person_spm_unit_id[p]})]
                    ELSE spm_values[1]])

\* _map_spm_to_person(sim, spm_values, period)
MapSpmToPerson(s, spm_values) ==
    LET spm_unit_id == Calc(s, "spm_unit_id")
        person_spm_unit_id == Calc(s, "person_spm_unit_id")
        spm_id_to_idx == IdToIdx(spm_unit_id)
    IN  IF ~HasAll(s, <<"spm_unit_id", "person_spm_unit_id">>)
        THEN MissingOf(s, <<"spm_unit_id", "person_spm_unit_id">>)
        ELSE IF \E p \in DOMAIN person_spm_unit_id :
              person_spm_unit_id[p] \notin DOMAIN spm_id_to_idx
        THEN Raise("KeyError")
        ELSE Ok([p \in DOMAIN person_spm_unit_id |->
                    spm_values[spm_id_to_idx[person_spm_unit_id[p]]]])

\* spm_agg[idx] = person_vals[i]: the value overwrites the accumulator
AddAtOverwrite(spm_agg, idx, v) == [spm_agg EXCEPT ![idx] = v]

\* spm_agg[idx] += person_vals[i]
AddAt(spm_agg, idx, v) == [spm_agg EXCEPT ![idx] = @ + v]

\* the loop of _aggregate_person_to_spm after its first i iterations, over
\* spm_agg = np.zeros(n)
RECURSIVE AggLoop(_, _, _, _, _)
AggLoop(person_spm_unit_id, spm_id_to_idx, person_vals, n, i) ==
    IF i = 0
    THEN [k \in 1..n |-> 0]
    ELSE AddAt(AggLoop(person_spm_unit_id, spm_id_to_idx, person_vals, n, i - 1),
               spm_id_to_idx[person_spm_unit_id[i]], person_vals[i])

\* _aggregate_person_to_spm(sim, person_vals, period)
AggregatePersonToSpm(s, person_vals) ==
    LET spm_unit_id == Calc(s, "spm_unit_id")
        person_spm_unit_id == Calc(s, "person_spm_unit_id")
        spm_id_to_idx == IdToIdx(spm_unit_id)
    IN  IF ~HasAll(s, <<"spm_unit_id", "person_spm_unit_id">>)
        THEN MissingOf(s, <<"spm_unit_id", "person_spm_unit_id">>)
        ELSE IF \E p \in DOMAIN person_spm_unit_id :
              person_spm_unit_id[p] \notin DOMAIN spm_id_to_idx
        THEN Raise("KeyError")
        ELSE Ok(AggLoop(person_spm_unit_id, spm_id_to_idx, person_vals,
                        Len(spm_unit_id), Len(person_spm_unit_id)))

(***************************************************************************)
(* Counterfactual effect engine.                                           *)
(***************************************************************************)
\* (resource <= threshold).astype(float): a resource equal to the threshold
\* counts as poor
PoorFlagInclusive(resource, threshold) ==
    [p \in DOMAIN resource |-> IF resource[p] <= threshold[p] THEN 1 ELSE 0]

\* (resource < threshold).astype(float)
PoorFlag(resource, threshold) ==
    [p \in DOMAIN resource |-> IF resource[p] < threshold[p] THEN 1 ELSE 0]

\* net_without = spm_net_income_person + benefit_person: the benefit is
\* added instead of removed
NetWithoutAdded(spm_net_income_person, benefit_person) ==
    [p \in DOMAIN spm_net_income_person |->
        spm_net_income_person[p] + benefit_person[p]]

\* net_without = spm_net_income_person - benefit_person
NetWithout(spm_net_income_person, benefit_person) ==
    [p \in DOMAIN spm_net_income_person |->
        spm_net_income_person[p] - benefit_person[p]]

\* the mask that selects every person, adults included
ChildMaskAll(s) == [p \in DOMAIN s.is_child |-> TRUE]

\* is_child = sim.calc("is_child").values == 1
ChildMask(s) == [p \in DOMAIN s.is_child |-> s.is_child[p] = 1]

\* _program_effect(sim, benefit_spm, period, spm_net_income_person,
\* spm_threshold_person).  The local arrays the function builds before it
\* can fail are kept with the result.
ProgramEffect(s, benefit_spm, spm_net_income_person, spm_threshold_person) ==
    LET is_child == ChildMask(s)
        pw == Calc(s, "person_weight")
        child_pw == Mask(pw, is_child)
        mapped == MapSpmToPerson(s, benefit_spm)
        benefit_person == mapped.value
        is_poor == PoorFlag(spm_net_income_person, spm_threshold_person)
        net_without == NetWithout(spm_net_income_person, benefit_person)
        poor_without == PoorFlag(net_without, spm_threshold_person)
        locals == [ benefit_person |-> benefit_person,
                    is_poor |-> is_poor,
                    net_without |-> net_without,
                    poor_without |-> poor_without ]
        rate_with == Average(Mask(is_poor, is_child), child_pw)
        rate_without == Average(Mask(poor_without, is_child), child_pw)
        swing == [p \in DOMAIN pw |-> (poor_without[p] - is_poor[p]) * pw[p]]
        spm_w == s.spm_unit_weight
    IN  IF ~HasAll(s, <<"is_child", "person_weight">>)
        THEN MissingOf(s, <<"is_child", "person_weight">>)
        ELSE IF mapped.status # "ok" THEN mapped
        ELSE IF rate_with.status # "ok"
        THEN [status |-> rate_with.status, locals |-> locals]
        ELSE IF ~Has(s, "spm_unit_spm_threshold")
        THEN MissingOf(s, <<"spm_unit_spm_threshold">>)
        ELSE [ status |-> "ok",
               locals |-> locals,
               value |->
                 [ children_lifted |-> Sum(Mask(swing, is_child)),
                   total_lifted |-> Sum(swing),
                   rate_with |-> rate_with.value,
                   rate_without |-> rate_without.value,
                   total_benefit_B |->
                       Rat(Sum(Times(benefit_spm, spm_w)), 1000000000) ] ]

(***************************************************************************)
(* Program effects assembler.                                              *)
(***************************************************************************)
\* _sum_tax_units_to_spm(sim, tu_var_name, period): the tax unit's value is
\* given to each of its members, then summed over the members of each SPM
\* unit
SumTaxUnitsToSpm(s, tu_var_name) ==
    LET needs == <<tu_var_name, "tax_unit_id", "person_tax_unit_id">>
        tu_vals == Calc(s, tu_var_name)
        tu_id == Calc(s, "tax_unit_id")
        person_tu_id == Calc(s, "person_tax_unit_id")
        tu_id_to_idx == IdToIdx(tu_id)
        tu_person == [p \in DOMAIN person_tu_id |->
                         tu_vals[tu_id_to_idx[person_tu_id[p]]]]
    IN  IF ~HasAll(s, needs) THEN MissingOf(s, needs)
        ELSE IF \E p \in DOMAIN person_tu_id :
                   person_tu_id[p] \notin DOMAIN tu_id_to_idx
        THEN Raise("KeyError")
        ELSE AggregatePersonToSpm(s, tu_person)

\* a - b in place of a + b
PlusSubtracted(a, b) == [i \in DOMAIN a |-> a[i] - b[i]]

\* a + b, element by element
Plus(a, b) == [i \in DOMAIN a |-> a[i] + b[i]]

\* the programs with the two credits evaluated before the EITC
ProgramsCreditsFirst ==
    << "snap", "social_security", "ssi", "housing", "school_meals",
       "refundable_ctc", "eitc", "refundable_credits" >>

\* the programs in the order compute_program_effects evaluates them
Programs ==
    << "snap", "social_security", "ssi", "housing", "school_meals", "eitc",
       "refundable_ctc", "refundable_credits" >>

\* r.update(program=..., label=..., census_children_lifted_M=...)
ProgramLabel ==
    [ snap |-> [label |-> "SNAP", census |-> "1.4"],
      social_security |-> [label |-> "Social Security", census |-> "None"],
      ssi |-> [label |-> "SSI", census |-> "0.5"],
      housing |-> [label |-> "Housing subsidies", census |-> "None"],
      school_meals |-> [label |-> "School meals", census |-> "None"],
      eitc |-> [label |-> "EITC", census |-> "None"],
      refundable_ctc |-> [label |-> "Refundable CTC", census |-> "None"],
      refundable_credits |-> [label |-> "EITC + refundable CTC",
                              census |-> "3.7"] ]

\* the SPM-unit-level benefit of a program, as compute_program_effects
\* obtains it from the provider
BenefitSpm(s, prog) ==
    CASE prog = "snap" ->
           IF Has(s, "snap") THEN Ok(Calc(s, "snap"))
           ELSE MissingOf(s, <<"snap">>)
      [] prog = "social_security" ->
           IF Has(s, "social_security")
           THEN AggregatePersonToSpm(s, Calc(s, "social_security"))
           ELSE MissingOf(s, <<"social_security">>)
      [] prog = "ssi" ->
           IF Has(s, "ssi") THEN AggregatePersonToSpm(s, Calc(s, "ssi"))
           ELSE MissingOf(s, <<"ssi">>)
      [] prog = "housing" ->
           IF Has(s, "spm_unit_capped_housing_subsidy")
           THEN Ok(Calc(s, "spm_unit_capped_housing_subsidy"))
           ELSE MissingOf(s, <<"spm_unit_capped_housing_subsidy">>)
      [] prog = "school_meals" ->
           IF HasAll(s, <<"free_school_meals", "reduced_price_school_meals">>)
           THEN Ok(Plus(Calc(s, "free_school_meals"),
                        Calc(s, "reduced_price_school_meals")))
           ELSE MissingOf(s, <<"free_school_meals",
                               "reduced_price_school_meals">>)
      [] prog = "eitc" -> SumTaxUnitsToSpm(s, "eitc")
      [] prog = "refundable_ctc" -> SumTaxUnitsToSpm(s, "refundable_ctc")
      [] prog = "refundable_credits" ->
           \* combined_spm = eitc_spm + rctc_spm, both computed before
           Ok(Plus(SumTaxUnitsToSpm(s, "eitc").value,
                   SumTaxUnitsToSpm(s, "refundable_ctc").value))

\* one program's record: effect(benefit_spm), then r.update(...)
ProgramRecord(s, prog, spm_net_income_person, spm_threshold_person) ==
    LET b == BenefitSpm(s, prog)
        r == ProgramEffect(s, b.value, spm_net_income_person,
                           spm_threshold_person)
    IN  IF b.status # "ok" THEN b
        ELSE IF r.status # "ok" THEN [status |-> r.status]
        ELSE Ok([ program |-> prog,
                  label |-> ProgramLabel[prog].label,
                  census_children_lifted_M |-> ProgramLabel[prog].census,
                  children_lifted |-> r.value.children_lifted,
                  total_lifted |-> r.value.total_lifted,
                  rate_with |-> r.value.rate_with,
                  rate_without |-> r.value.rate_without,
                  total_benefit_B |-> r.value.total_benefit_B ])

\* the results list after the programs Programs[from..k], appended to
\* `before`; the first program that raises ends the run with its exception
\* and the list built so far
RECURSIVE RunPrograms(_, _, _, _, _, _)
RunPrograms(s, before, from, k, net_p, thr_p) ==
    IF k < from THEN Ok(before)
    ELSE LET prev == RunPrograms(s, before, from, k - 1, net_p, thr_p)
             r == ProgramRecord(s, Programs[k], net_p, thr_p)
         IN  IF prev.status # "ok" THEN prev
             ELSE IF r.status # "ok"
             THEN [status |-> r.status, value |-> prev.value]
             ELSE Ok(Append(prev.value, r.value))

\* compute_program_effects(sim, period)
ComputeProgramEffects(s) ==
    LET core == <<"spm_unit_spm_threshold", "spm_unit_net_income">>
        thr_p == MapSpmToPerson(s, Calc(s, "spm_unit_spm_threshold"))
        net_p == MapSpmToPerson(s, Calc(s, "spm_unit_net_income"))
        six == RunPrograms(s, <<>>, 1, 6, net_p.value, thr_p.value)
        \* try: refundable CTC, then the combined credits; except: pass
        tried == RunPrograms(s, six.value, 7, 8, net_p.value, thr_p.value)
    IN  IF ~HasAll(s, core) THEN MissingOf(s, core)
        ELSE IF thr_p.status # "ok" THEN thr_p
        ELSE IF six.status # "ok" THEN [status |-> six.status]
        ELSE Ok(tried.value)

(***************************************************************************)
(* Child poverty rate assembler.                                           *)
(***************************************************************************)
\* np.any(mask)
NpAny(m) == \E i \in DOMAIN m : m[i]

\* the person weights fetched together with is_child, ahead of the
\* no-children check
QueriedBeforeChildCheckWithWeight == <<"is_child", "person_weight">>

\* the variables compute_child_poverty_rate queries before it checks whether
\* the sample has a child
QueriedBeforeChildCheck == <<"is_child">>

\* compute_child_poverty_rate(sim, period).  The unit-level reported flag
\* is kept with the result once the function has built it.
ComputeChildPovertyRate(s) ==
    LET child_mask == ChildMask(s)
        person_weight == Calc(s, "person_weight")
        person_in_poverty == Calc(s, "person_in_poverty")
        child_w == Mask(person_weight, child_mask)
        computed_rate == Average(Mask(person_in_poverty, child_mask), child_w)
        unit_vars == <<"spm_unit_net_income_reported", "spm_unit_spm_threshold">>
        reported_poor_spm ==
            PoorFlag(Calc(s, "spm_unit_net_income_reported"),
                     Calc(s, "spm_unit_spm_threshold"))
        locals == [reported_poor_spm |-> reported_poor_spm]
        person_reported_poor == MapSpmToPerson(s, reported_poor_spm)
        reported_rate ==
            Average(Mask(person_reported_poor.value, child_mask), child_w)
    IN  IF ~HasAll(s, QueriedBeforeChildCheck)
        THEN MissingOf(s, QueriedBeforeChildCheck)
        ELSE IF ~NpAny(child_mask)
        THEN Ok([computed |-> Zero, reported |-> Zero])
        ELSE IF ~HasAll(s, <<"person_weight", "person_in_poverty">>)
        THEN MissingOf(s, <<"person_weight", "person_in_poverty">>)
        ELSE IF computed_rate.status # "ok" THEN computed_rate
        ELSE IF ~HasAll(s, unit_vars) THEN MissingOf(s, unit_vars)
        ELSE IF person_reported_poor.status # "ok"
        THEN person_reported_poor
        ELSE IF reported_rate.status # "ok"
        THEN [status |-> reported_rate.status, locals |-> locals]
        ELSE [ status |-> "ok",
               locals |-> locals,
               value |-> [ computed |-> computed_rate.value,
                           reported |-> reported_rate.value ] ]

(***************************************************************************)
(* Demographic breakdowns assembler.                                       *)
(***************************************************************************)
\* (age_min, age_max, label, census_rate) of the by_age loop
AgeGroups ==
    << [lo |-> 0, hi |-> 5, label |-> "Under 6", census_rate |-> "0.151"],
       [lo |-> 6, hi |-> 11, label |-> "6-11", census_rate |-> "0.126"],
       [lo |-> 12, hi |-> 17, label |-> "12-17", census_rate |-> "0.125"] >>

\* (code, label, census_rate) of the cps_race loop
RaceGroups ==
    << [code |-> 1, label |-> "White", census_rate |-> "0.11"],
       [code |-> 2, label |-> "Black", census_rate |-> "0.21"],
       [code |-> 3, label |-> "American Indian", census_rate |-> "None"],
       [code |-> 4, label |-> "Asian", census_rate |-> "0.11"] >>

\* (val, label, census_rate) of the is_hispanic loop
HispanicGroups ==
    << [code |-> 1, label |-> "Hispanic (any race)", census_rate |-> "0.20"],
       [code |-> 0, label |-> "Non-Hispanic", census_rate |-> "None"] >>

\* the body of each of the three loops: the rate and the count of the
\* children selected by mask, as the record appended to the list
GroupRecord(is_poor, pw, mask, label, census_rate) ==
    LET rate == Average(Mask(is_poor, mask), Mask(pw, mask))
        count == Sum(Mask(pw, mask))
    IN  IF ~NpAny(mask)
        THEN Ok([ group |-> label, pe_rate |-> Round(Zero, 4),
                  census_rate |-> census_rate, total_children |-> 0 ])
        ELSE IF rate.status # "ok" THEN rate
        ELSE Ok([ group |-> label, pe_rate |-> Round(rate.value, 4),
                  census_rate |-> census_rate,
                  total_children |-> RoundInt(Rat(count, 1)) ])

\* a loop over the first k groups appending to `before`; masks[g] is the
\* mask of group g.  The first group that raises ends the loop with its
\* exception and the list built so far.
RECURSIVE GroupLoop(_, _, _, _, _, _)
GroupLoop(before, groups, masks, is_poor, pw, k) ==
    IF k = 0 THEN Ok(before)
    ELSE LET prev == GroupLoop(before, groups, masks, is_poor, pw, k - 1)
             r == GroupRecord(is_poor, pw, masks[k], groups[k].label,
                              groups[k].census_rate)
         IN  IF prev.status # "ok" THEN prev
             ELSE IF r.status # "ok"
             THEN [status |-> r.status, value |-> prev.value]
             ELSE Ok(Append(prev.value, r.value))

\* try: <var> = sim.calc(...); for ...: by_race.append(...)
\* except Exception: pass
\* by_race after the block: whatever the block appended before it raised
TryGroups(s, by_race, var, groups, is_child, is_poor, pw) ==
    LET column == Calc(s, var)
        masks == [g \in DOMAIN groups |->
                     [p \in DOMAIN is_child |->
                         is_child[p] /\ column[p] = groups[g].code]]
    IN  IF ~Has(s, var) THEN by_race
        ELSE GroupLoop(by_race, groups, masks, is_poor, pw, Len(groups)).value

\* compute_demographic_breakdowns(sim, period)
ComputeDemographicBreakdowns(s) ==
    LET core == << "is_child", "person_weight", "age",
                   "spm_unit_spm_threshold", "spm_unit_net_income" >>
        is_child == ChildMask(s)
        pw == Calc(s, "person_weight")
        age == Calc(s, "age")
        threshold_person == MapSpmToPerson(s, Calc(s, "spm_unit_spm_threshold"))
        net_income_person == MapSpmToPerson(s, Calc(s, "spm_unit_net_income"))
        is_poor == PoorFlag(net_income_person.value, threshold_person.value)
        age_masks == [g \in DOMAIN AgeGroups |->
                         [p \in DOMAIN is_child |->
                             /\ is_child[p]
                             /\ age[p] >= AgeGroups[g].lo
                             /\ age[p] <= AgeGroups[g].hi]]
        by_age == GroupLoop(<<>>, AgeGroups, age_masks, is_poor, pw,
                            Len(AgeGroups))
        race == TryGroups(s, <<>>, "cps_race", RaceGroups, is_child, is_poor, pw)
        by_race == TryGroups(s, race, "is_hispanic", HispanicGroups, is_child,
                             is_poor, pw)
    IN  IF ~HasAll(s, core) THEN MissingOf(s, core)
        ELSE IF threshold_person.status # "ok" THEN threshold_person
        ELSE IF by_age.status # "ok" THEN [status |-> by_age.status]
        ELSE Ok([by_age |-> by_age.value, by_race |-> by_race])

(***************************************************************************)
(* Weighted quantiles and the quantile grouper (tax_gap.py, weights.py:    *)
(* the two modules hold the same _weighted_quantiles and the same bucket   *)
(* loop).                                                                  *)
(***************************************************************************)
\* the outcomes np.argsort(values) can have: every permutation that lists
\* the values in ascending order.  The default sort is not stable, so the
\* order among equal values is any
ArgSorts(values) ==
    {o \in [DOMAIN values -> DOMAIN values] :
        /\ \A i, j \in DOMAIN values : o[i] = o[j] => i = j
        /\ \A i, j \in DOMAIN values : i < j => values[o[i]] <= values[o[j]]}

\* the array left in its original order: a in place of a[order]
TakeUnsorted(a, order) == a

\* a[order]
Take(a, order) == [i \in DOMAIN order |-> a[order[i]]]

\* np.cumsum(a)
CumSum(a) == [i \in DOMAIN a |-> SumTo(a, i)]

\* the integer v as a fraction
RatOf(v) == Rat(v, 1)

\* np.interp(x, xp, fp) for one x: below xp[0] the first fp, above xp[-1]
\* the last; otherwise with j the last row such that xp[j] <= x, fp[j] when
\* j is the last row or xp[j] = x, and else
\* slope * (x - xp[j]) + fp[j], slope = (fp[j+1] - fp[j]) / (xp[j+1] - xp[j])
Interp(x, xp, fp) ==
    LET n == Len(xp)
        j == Max({k \in 1..n : RatLeq(RatOf(xp[k]), x)})
        dx == xp[j + 1] - xp[j]
        df == fp[j + 1] - fp[j]
    IN  IF RatLess(x, RatOf(xp[1])) THEN RatOf(fp[1])
        ELSE IF RatLess(RatOf(xp[n]), x) THEN RatOf(fp[n])
        ELSE IF n = 1 THEN RatOf(fp[1])
        ELSE IF j = n THEN RatOf(fp[n])
        ELSE IF RatEq(RatOf(xp[j]), x) THEN RatOf(fp[j])
        ELSE Rat(fp[j] * x.d * dx + df * (x.n - xp[j] * x.d), x.d * dx)

\* _weighted_quantiles(values, weights, quantiles), sorted_idx being what
\* np.argsort(values) returned
WeightedQuantiles(values, weights, quantiles, sorted_idx) ==
    LET sorted_vals == Take(values, sorted_idx)
        sorted_weights == Take(weights, sorted_idx)
        cumulative == CumSum(sorted_weights)
        total == cumulative[Len(cumulative)]
    IN  [k \in DOMAIN quantiles |->
            Interp(Rat(quantiles[k].n * total, quantiles[k].d),
                   cumulative, sorted_vals)]

\* [i / 10 for i in range(1, 10)]
DecileFractions == [i \in 1..9 |-> Rat(i, 10)]

\* [0.2, 0.4, 0.6, 0.8]
QuintileFractions == <<Rat(2, 10), Rat(4, 10), Rat(6, 10), Rat(8, 10)>>

\* bucket[values < bp] = i + 1: the comparison turned around
BucketStepReversed(bucket, values, bp, k) ==
    [r \in DOMAIN values |->
        IF RatLess(RatOf(values[r]), bp) THEN k ELSE bucket[r]]

\* bucket[values >= bp] = i + 1: a value equal to a breakpoint moves up
BucketStepInclusive(bucket, values, bp, k) ==
    [r \in DOMAIN values |->
        IF RatLeq(bp, RatOf(values[r])) THEN k ELSE bucket[r]]

\* bucket[values > bp] = i + 1, with k = i + 1
BucketStep(bucket, values, bp, k) ==
    [r \in DOMAIN values |->
        IF RatLess(bp, RatOf(values[r])) THEN k ELSE bucket[r]]

\* the loop "for i, bp in enumerate(breakpoints)" after its first k rounds,
\* over np.zeros(len(values), dtype=int)
RECURSIVE BucketLoop(_, _, _)
BucketLoop(values, breakpoints, k) ==
    IF k = 0 THEN [r \in DOMAIN values |-> 0]
    ELSE BucketStep(BucketLoop(values, breakpoints, k - 1), values,
                    breakpoints[k], k)

\* the body shared by _assign_decile and _assign_quintile; the breakpoints
\* are kept with the buckets
AssignBuckets(values, weights, fractions, sorted_idx) ==
    LET breakpoints == WeightedQuantiles(values, weights, fractions, sorted_idx)
    IN  [ breakpoints |-> breakpoints,
          buckets |-> BucketLoop(values, breakpoints, Len(breakpoints)) ]

\* _assign_decile(values, weights)
AssignDecile(values, weights, sorted_idx) ==
    AssignBuckets(values, weights, DecileFractions, sorted_idx)

\* _assign_quintile(values, weights)
AssignQuintile(values, weights, sorted_idx) ==
    AssignBuckets(values, weights, QuintileFractions, sorted_idx)

(***************************************************************************)
(* Tax gap by income decile.                                               *)
(***************************************************************************)
\* range(10)
NumDeciles == 10

\* "gap": mean_pe_tax - mean_reported_tax
Gap(mean_pe_tax, mean_reported_tax) == RatSub(mean_pe_tax, mean_reported_tax)

\* "decile": d + 1
DecileLabel(d) == d + 1

\* the record compute_tax_gap appends for decile d (0-based), or the
\* exception np.average raises when the weights of the decile sum to zero
DecileRecord(values, weights, tax_pe, tax_reported, deciles, d) ==
    LET mask == [r \in DOMAIN deciles |-> deciles[r] = d]
        w == Mask(weights, mask)
        mean_inc == Average(Mask(values, mask), w)
        mean_pe_tax == Average(Mask(tax_pe, mask), w)
        mean_reported_tax == Average(Mask(tax_reported, mask), w)
    IN  IF ~NpAny(mask)
        THEN Ok([ decile |-> DecileLabel(d),
                  mean_income |-> Zero,
                  pe_federal_tax |-> Zero,
                  reported_federal_tax |-> Zero,
                  gap |-> Gap(Zero, Zero) ])
        ELSE IF mean_inc.status # "ok" THEN mean_inc
        ELSE Ok([ decile |-> DecileLabel(d),
                  mean_income |-> mean_inc.value,
                  pe_federal_tax |-> mean_pe_tax.value,
                  reported_federal_tax |-> mean_reported_tax.value,
                  gap |-> Gap(mean_pe_tax.value, mean_reported_tax.value) ])

\* compute_tax_gap(sim, period), sorted_idx being what np.argsort returned
\* inside _assign_decile; the decile of each record is kept with the result
ComputeTaxGap(s, sorted_idx) ==
    LET needs == << "spm_unit_total_income_reported", "spm_unit_federal_tax",
                    "spm_unit_federal_tax_reported" >>
        values == Calc(s, "spm_unit_total_income_reported")
        weights == s.spm_unit_weight
        tax_pe == Calc(s, "spm_unit_federal_tax")
        tax_reported == Calc(s, "spm_unit_federal_tax_reported")
        deciles == AssignDecile(values, weights, sorted_idx).buckets
        rec == [d \in 0..(NumDeciles - 1) |->
                   DecileRecord(values, weights, tax_pe, tax_reported, deciles, d)]
    IN  IF ~HasAll(s, needs) THEN MissingOf(s, needs)
        ELSE IF \E d \in DOMAIN rec : rec[d].status # "ok"
        THEN [status |-> "ZeroDivisionError", locals |-> [deciles |-> deciles]]
        ELSE [ status |-> "ok",
               locals |-> [deciles |-> deciles],
               value |-> [i \in 1..NumDeciles |-> rec[i - 1].value] ]

(***************************************************************************)
(* Weight rebalancing assembler (weights.py).                              *)
(***************************************************************************)
\* INCOME_QUINTILE_LABELS
INCOME_QUINTILE_LABELS == <<"Q1", "Q2", "Q3", "Q4", "Q5">>

\* FAMILY_STRUCTURE_LABELS
FAMILY_STRUCTURE_LABELS == <<"single parent", "married">>

\* _get_person_level_grouping(sim, period), sorted_idx being what np.argsort
\* returned inside _assign_quintile
GetPersonLevelGrouping(s, sorted_idx) ==
    LET person_income ==
            MapSpmToPerson(s, Calc(s, "spm_unit_net_income_reported"))
        person_weight == Calc(s, "person_weight")
        quintiles == AssignQuintile(person_income.value, person_weight,
                                    sorted_idx).buckets
        tu_vars == <<"tax_unit_id", "person_tax_unit_id", "tax_unit_is_joint">>
        person_tax_unit_id == Calc(s, "person_tax_unit_id")
        joint_values == Calc(s, "tax_unit_is_joint")
        tu_id_to_idx == IdToIdx(Calc(s, "tax_unit_id"))
    IN  IF ~Has(s, "spm_unit_net_income_reported")
        THEN MissingOf(s, <<"spm_unit_net_income_reported">>)
        ELSE IF person_income.status # "ok" THEN person_income
        ELSE IF ~Has(s, "person_weight") THEN MissingOf(s, <<"person_weight">>)
        ELSE IF Len(person_weight) = 0 THEN Raise("IndexError")
        ELSE IF ~HasAll(s, tu_vars) THEN MissingOf(s, tu_vars)
        ELSE IF \E p \in DOMAIN person_tax_unit_id :
                   person_tax_unit_id[p] \notin DOMAIN tu_id_to_idx
        THEN Raise("KeyError")
        ELSE Ok([ quintiles |-> quintiles,
                  family_is_joint |->
                      [p \in DOMAIN person_tax_unit_id |->
                          joint_values[tu_id_to_idx[person_tax_unit_id[p]]]],
                  person_weight |-> person_weight ])

\* the record _compute_group_stats appends for quintile q_idx and family
\* structure fs_idx (both 0-based)
GroupStats(child_mask, person_in_poverty, g, q_idx, fs_idx) ==
    LET mask == [p \in DOMAIN child_mask |->
                    /\ child_mask[p]
                    /\ g.quintiles[p] = q_idx
                    /\ g.family_is_joint[p] = fs_idx]
        total_children_weighted == Sum(Mask(g.person_weight, child_mask))
        weighted_children == Sum(Mask(g.person_weight, mask))
    IN  [ label |-> INCOME_QUINTILE_LABELS[q_idx + 1] \o " / "
                       \o FAMILY_STRUCTURE_LABELS[fs_idx + 1],
          poverty_rate |->
              IF weighted_children > 0
              THEN Average(Mask(person_in_poverty, mask),
                           Mask(g.person_weight, mask)).value
              ELSE Zero,
          child_share |->
              IF total_children_weighted > 0
              THEN Rat(weighted_children, total_children_weighted)
              ELSE Zero ]

\* _compute_group_stats(sim, quintiles, family_is_joint, person_weight,
\* period): the groups in the order of the two nested loops
ComputeGroupStats(s, g) ==
    LET nq == Len(INCOME_QUINTILE_LABELS)
        nf == Len(FAMILY_STRUCTURE_LABELS)
    IN  IF ~HasAll(s, <<"is_child", "person_in_poverty">>)
        THEN MissingOf(s, <<"is_child", "person_in_poverty">>)
        ELSE Ok([k \in 1..(nq * nf) |->
                    GroupStats(ChildMask(s), Calc(s, "person_in_poverty"), g,
                               (k - 1) \div nf, (k - 1) % nf)])

\* the filter with "and" in place of "or"
KeptInBoth(g) ==
    RatLess(Zero, g.raw_cps_child_share)
       /\ RatLess(Zero, g.enhanced_cps_child_share)

\* g["raw_cps_child_share"] > 0 or g["enhanced_cps_child_share"] > 0
Kept(g) ==
    RatLess(Zero, g.raw_cps_child_share)
       \/ RatLess(Zero, g.enhanced_cps_child_share)

\* [g for g in merged if ...] over the first k entries
RECURSIVE FilterKept(_, _)
FilterKept(merged, k) ==
    IF k = 0 THEN <<>>
    ELSE IF Kept(merged[k]) THEN Append(FilterKept(merged, k - 1), merged[k])
    ELSE FilterKept(merged, k - 1)

\* compute_weight_rebalancing(raw_sim, enhanced_sim, period)
ComputeWeightRebalancing(raw_sim, enhanced_sim, raw_idx, enh_idx) ==
    LET raw == GetPersonLevelGrouping(raw_sim, raw_idx)
        enh == GetPersonLevelGrouping(enhanced_sim, enh_idx)
        raw_groups == ComputeGroupStats(raw_sim, raw.value)
        enh_groups == ComputeGroupStats(enhanced_sim, enh.value)
        merged == [k \in DOMAIN raw_groups.value |->
                      [ label |-> raw_groups.value[k].label,
                        raw_cps_poverty_rate |-> raw_groups.value[k].poverty_rate,
                        enhanced_cps_poverty_rate |->
                            enh_groups.value[k].poverty_rate,
                        raw_cps_child_share |-> raw_groups.value[k].child_share,
                        enhanced_cps_child_share |->
                            enh_groups.value[k].child_share ]]
    IN  IF raw.status # "ok" THEN raw
        ELSE IF enh.status # "ok" THEN enh
        ELSE IF raw_groups.status # "ok" THEN raw_groups
        ELSE IF enh_groups.status # "ok" THEN enh_groups
        ELSE IF \E k \in DOMAIN merged :
                   raw_groups.value[k].label # enh_groups.value[k].label
        THEN Raise("AssertionError")
        ELSE Ok([groups |-> FilterKept(merged, Len(merged))])

\* the outcomes of np.argsort inside _get_person_level_grouping: the sort
\* is reached only when the income could be mapped to the persons
GroupingSorts(s) ==
    LET person_income ==
            MapSpmToPerson(s, Calc(s, "spm_unit_net_income_reported"))
    IN  IF /\ Has(s, "spm_unit_net_income_reported")
           /\ person_income.status = "ok"
           /\ Has(s, "person_weight")
           /\ Len(person_income.value) > 0
        THEN ArgSorts(person_income.value)
        ELSE {<<>>}

(***************************************************************************)
(* State-level results (states.py).  The dataset of a region either fails  *)
(* to load or loads as a provider.                                         *)
(***************************************************************************)
\* STATES
STATES ==
    << "AL", "AK", "AZ", "AR", "CA", "CO", "CT", "DC", "DE", "FL",
       "GA", "HI", "IA", "ID", "IL", "IN", "KS", "KY", "LA", "MA",
       "MD", "ME", "MI", "MN", "MO", "MS", "MT", "NC", "ND", "NE",
       "NH", "NJ", "NM", "NV", "NY", "OH", "OK", "OR", "PA", "RI",
       "SC", "SD", "TN", "TX", "UT", "VA", "VT", "WA", "WI", "WV",
       "WY" >>

\* the body of the loop of compute_state_results for one region: the
\* record appended, or the exception raised
StateRecord(state, dataset) ==
    LET s == dataset.sim
        poverty == ComputeChildPovertyRate(s)
        child_mask == ChildMask(s)
    IN  IF ~dataset.load_ok THEN Raise("LoadError")
        ELSE IF poverty.status # "ok" THEN [status |-> poverty.status]
        ELSE IF ~HasAll(s, <<"is_child", "person_weight">>)
        THEN MissingOf(s, <<"is_child", "person_weight">>)
        ELSE Ok([ state |-> state,
                  reported_child_poverty |-> poverty.value.reported,
                  computed_child_poverty |-> poverty.value.computed,
                  total_children |->
                      Sum(Mask(Calc(s, "person_weight"), child_mask)) ])

\* the loop "for state in STATES" over the first k regions: the first
\* region that raises ends the function with its exception
RECURSIVE StateLoop(_, _, _)
StateLoop(states, datasets, k) ==
    IF k = 0 THEN Ok(<<>>)
    ELSE LET prev == StateLoop(states, datasets, k - 1)
             r == StateRecord(states[k], datasets[k])
         IN  IF prev.status # "ok" THEN prev
             ELSE IF r.status # "ok" THEN [status |-> r.status]
             ELSE Ok(Append(prev.value, r.value))

\* compute_state_results(period) over the regions states, datasets[k]
\* being what Microsimulation(dataset=...) gives for region k
ComputeStateResults(states, datasets) ==
    StateLoop(states, datasets, Len(states))

(***************************************************************************)
(* The per-region loop of the script extract_state_data.py.  A region's    *)
(* dataset holds the arrays the provider answers with: person-level        *)
(* arrays, the SPM-unit arrays already mapped to persons (map_to="person") *)
(* and, per variable, the array mapped to SPM units (map_to="spm_unit").   *)
(***************************************************************************)
\* the variables summed by spm_total, in the order of the calls
SpmTotalVariables ==
    << "snap", "social_security", "ssi", "spm_unit_capped_housing_subsidy",
       "free_school_meals", "reduced_price_school_meals", "eitc",
       "refundable_ctc", "tanf", "unemployment_compensation", "wic",
       "spm_unit_market_income", "spm_unit_benefits", "spm_unit_taxes",
       "spm_unit_federal_tax", "spm_unit_state_tax", "spm_unit_net_income" >>

\* the variables queried outside the inner try, in the order of the queries
ExtractVariables ==
    << "is_child", "person_weight", "spm_unit_spm_threshold",
       "spm_unit_net_income", "spm_unit_net_income_reported" >>
       \o SpmTotalVariables

\* spm_total(var): float((vals * spm_w).sum())
SpmTotal(ds, var) == Sum(Times(ds.spm_unit_values[var], ds.spm_w))

\* total / 1e9
Billions(total) == Rat(total, 1000000000)

\* the row of a region whose processing raised nothing
StateDataRow(state, ds) ==
    LET is_child == [p \in DOMAIN ds.is_child |-> ds.is_child[p] = 1]
        pw == ds.person_weight
        child_pw == Mask(pw, is_child)
        total_children == Sum(child_pw)
        total_people == Sum(pw)
        is_poor == PoorFlag(ds.spm_unit_net_income_person,
                            ds.spm_unit_spm_threshold_person)
        is_poor_reported == PoorFlag(ds.spm_unit_net_income_reported_person,
                                     ds.spm_unit_spm_threshold_person)
        \* pw[is_child & (column == code)].sum() / total_children
        pct(column, code) ==
            IF total_children > 0
            THEN Rat(Sum(Mask(pw, [p \in DOMAIN pw |->
                                      is_child[p] /\ column[p] = code])),
                     total_children)
            ELSE Zero
        known == HasAll(ds, <<"cps_race", "is_hispanic">>)
    IN  [ state |-> state,
          total_people |-> total_people,
          total_children |-> total_children,
          child_poverty_pe |->
              IF total_children > 0
              THEN Average(Mask(is_poor, is_child), child_pw).value ELSE Zero,
          child_poverty_reported |->
              IF total_children > 0
              THEN Average(Mask(is_poor_reported, is_child), child_pw).value
              ELSE Zero,
          total_poverty_pe |->
              IF total_people > 0 THEN Average(is_poor, pw).value ELSE Zero,
          snap_B |-> Billions(SpmTotal(ds, "snap")),
          social_security_B |-> Billions(SpmTotal(ds, "social_security")),
          ssi_B |-> Billions(SpmTotal(ds, "ssi")),
          housing_B |->
              Billions(SpmTotal(ds, "spm_unit_capped_housing_subsidy")),
          school_meals_B |->
              Billions(SpmTotal(ds, "free_school_meals")
                         + SpmTotal(ds, "reduced_price_school_meals")),
          eitc_B |-> Billions(SpmTotal(ds, "eitc")),
          refundable_ctc_B |-> Billions(SpmTotal(ds, "refundable_ctc")),
          tanf_B |-> Billions(SpmTotal(ds, "tanf")),
          unemployment_comp_B |->
              Billions(SpmTotal(ds, "unemployment_compensation")),
          wic_B |-> Billions(SpmTotal(ds, "wic")),
          market_income_B |-> Billions(SpmTotal(ds, "spm_unit_market_income")),
          total_benefits_B |-> Billions(SpmTotal(ds, "spm_unit_benefits")),
          total_taxes_B |-> Billions(SpmTotal(ds, "spm_unit_taxes")),
          federal_tax_B |-> Billions(SpmTotal(ds, "spm_unit_federal_tax")),
          state_tax_B |-> Billions(SpmTotal(ds, "spm_unit_state_tax")),
          net_income_B |-> Billions(SpmTotal(ds, "spm_unit_net_income")),
          pct_children_white |->
              IF known THEN pct(ds.cps_race, 1) ELSE "None",
          pct_children_black |->
              IF known THEN pct(ds.cps_race, 2) ELSE "None",
          pct_children_hispanic |->
              IF known THEN pct(ds.is_hispanic, 1) ELSE "None" ]

\* the body of the try for one region: the row, or the exception raised by
\* the load or by the first query of a variable the provider does not know
TryRegion(state, ds) ==
    IF ~ds.load_ok THEN [status |-> "LoadError", message |-> "LoadError"]
    ELSE IF ~HasAll(ds, ExtractVariables)
    THEN [ status |-> "VariableNotFound",
           message |-> MissingOf(ds, ExtractVariables).variable ]
    ELSE Ok(StateDataRow(state, ds))

\* except Exception: pass -- the failed region leaves no entry
RowsAfterRegionDropped(rows, state, ds) ==
    LET r == TryRegion(state, ds)
    IN  IF r.status = "ok" THEN Append(rows, r.value) ELSE rows

\* rows after one iteration of the loop: try: ... rows.append(row)
\* except Exception as e: rows.append({"state": state, "error": str(e)})
RowsAfterRegion(rows, state, ds) ==
    LET r == TryRegion(state, ds)
    IN  IF r.status = "ok" THEN Append(rows, r.value)
        ELSE Append(rows, [state |-> state, error |-> r.message])

(***************************************************************************)
(* The waterfalls of the orchestrators (decomposition.py, run_pipeline.py). *)
(***************************************************************************)
\* CENSUS_PUBLISHED_CHILD_POVERTY_2024 = 0.134
CENSUS_PUBLISHED_CHILD_POVERTY_2024 == Rat(134, 1000)

\* _build_waterfall(census, raw_poverty, enhanced_poverty)
BuildWaterfall(census, raw_poverty, enhanced_poverty) ==
    LET raw_reported == raw_poverty.reported
        raw_computed == raw_poverty.computed
        enh_reported == enhanced_poverty.reported
        enh_computed == enhanced_poverty.computed
    IN  << [ label |-> "Census published rate (internal file)",
             value |-> Round(census, 4) ],
           [ label |-> "Privacy edits (public-use CPS reported)",
             value |-> Round(raw_reported, 4),
             delta |-> Round(RatSub(raw_reported, census), 4) ],
           [ label |-> "PE tax/benefit modelling (raw CPS)",
             value |-> Round(raw_computed, 4),
             delta |-> Round(RatSub(raw_computed, raw_reported), 4) ],
           [ label |-> "Weight recalibration (enhanced CPS reported)",
             value |-> Round(enh_reported, 4),
             delta |-> Round(RatSub(enh_reported, raw_reported), 4) ],
           [ label |-> "PE tax/benefit modelling (enhanced CPS)",
             value |-> Round(enh_computed, 4),
             delta |-> Round(RatSub(enh_computed, enh_reported), 4) ] >>

\* the steps list of run_pipeline.main
PipelineSteps(census, raw_poverty, enhanced_poverty) ==
    << [ label |-> "Census published (2024)", value |-> Round(census, 4) ],
       [ label |-> "Raw CPS reported (2024)",
         value |-> Round(raw_poverty.reported, 4) ],
       [ label |-> "Raw CPS PE-computed (2024)",
         value |-> Round(raw_poverty.computed, 4) ],
       [ label |-> "Enhanced CPS PE-computed (2024)",
         value |-> Round(enhanced_poverty.computed, 4) ] >>

\* the deltas list of run_pipeline.main: entry k goes from steps[k-1] to
\* steps[k] (0-based), the explanation texts left out
PipelineDeltas(steps) ==
    [k \in 1..3 |->
        [ from |-> steps[k].label,
          to |-> steps[k + 1].label,
          delta |-> Round(RatSub(steps[k + 1].value, steps[k].value), 4) ]]

\* "waterfall": {"steps": steps, "deltas": deltas}
PipelineWaterfall(census, raw_poverty, enhanced_poverty) ==
    LET steps == PipelineSteps(census, raw_poverty, enhanced_poverty)
    IN  [steps |-> steps, deltas |-> PipelineDeltas(steps)]

(***************************************************************************)
(* run_pipeline.main: the sections it computes and the JSON it builds.     *)
(***************************************************************************)
\* an entry of "program_effects" in the output
OutputProgram(p) ==
    [ program |-> p.program,
      label |-> p.label,
      children_lifted |-> RoundInt(Rat(p.children_lifted, 1)),
      total_lifted |-> RoundInt(Rat(p.total_lifted, 1)),
      rate_with |-> Round(p.rate_with, 4),
      rate_without |-> Round(p.rate_without, 4),
      total_benefit_B |-> Round(p.total_benefit_B, 1),
      census_children_lifted_M |-> p.census_children_lifted_M ]

\* an entry of "tax_gap_by_decile": the floats rounded to 2 decimals, the
\* decile number (an int) as it is
OutputDecile(d) ==
    [ decile |-> d.decile,
      mean_income |-> Round(d.mean_income, 2),
      pe_federal_tax |-> Round(d.pe_federal_tax, 2),
      reported_federal_tax |-> Round(d.reported_federal_tax, 2),
      gap |-> Round(d.gap, 2) ]

\* an entry of "state_results" in the output
OutputState(s) ==
    [ state |-> s.state,
      reported_child_poverty |-> Round(s.reported_child_poverty, 4),
      computed_child_poverty |-> Round(s.computed_child_poverty, 4),
      total_children |-> RoundInt(Rat(s.total_children, 1)) ]

\* the output dict of main, built from its local variables; of "metadata"
\* the two dataset locators are kept (the clock readings and the package
\* version are left out)
BuildOutput(v) ==
    [ waterfall |->
          PipelineWaterfall(CENSUS_PUBLISHED_CHILD_POVERTY_2024,
                            v.raw_poverty, v.enhanced_poverty),
      program_effects |->
          [k \in DOMAIN v.program_effects |->
              OutputProgram(v.program_effects[k])],
      demographics |-> v.demographics,
      weight_rebalancing |-> v.weight_rebalancing,
      tax_gap_by_decile |->
          [k \in DOMAIN v.tax_gap |-> OutputDecile(v.tax_gap[k])],
      state_results |->
          [k \in DOMAIN v.state_results |-> OutputState(v.state_results[k])],
      metadata |-> [ raw_cps_dataset |-> "RAW_CPS_DATASET",
                     enhanced_cps_dataset |-> "ENHANCED_CPS_DATASET" ] ]

\* the local variables of main before any section is computed
NoLocals ==
    [ raw_poverty |-> "unset", enhanced_poverty |-> "unset",
      program_effects |-> "unset", demographics |-> "unset",
      weight_rebalancing |-> "unset", tax_gap |-> "unset",
      state_results |-> "unset" ]

\* the skip branch also empties the tax gap section
SkipStatesAndTaxGap(v) ==
    [v EXCEPT !.state_results = <<>>, !.tax_gap = <<>>]

\* if skip_states: state_results = []
SkipStates(v) == [v EXCEPT !.state_results = <<>>]

(***************************************************************************)
(* The unit mapper applied to a sample: any unit id table (duplicates      *)
(* included), any person-to-unit column (absent ids included).             *)
(***************************************************************************)
NoCall == [op |-> "none"]

NoResult == [status |-> "none"]

InitUnit ==
    /\ \E uids \in SeqsUpTo(Ids, MaxUnits), pids \in SeqsUpTo(Ids, MaxPersons) :
          sim = [EmptySim EXCEPT !.spm_unit_id = uids,
                                 !.person_spm_unit_id = pids]
    /\ call = NoCall
    /\ result = NoResult

CallMap ==
    /\ call.op = "none"
    /\ \E spm_values \in [1..Len(sim.spm_unit_id) -> Amounts] :
          /\ call' = [op |-> "_map_spm_to_person", spm_values |-> spm_values]
          /\ result' = MapSpmToPerson(sim, spm_values)
    /\ UNCHANGED sim

CallAggregate ==
    /\ call.op = "none"
    /\ \E person_vals \in [1..Len(sim.person_spm_unit_id) -> Amounts] :
          /\ call' = [op |-> "_aggregate_person_to_spm", person_vals |-> person_vals]
          /\ result' = AggregatePersonToSpm(sim, person_vals)
    /\ UNCHANGED sim

NextUnit == CallMap \/ CallAggregate

SpecUnit == InitUnit /\ [][NextUnit]_vars

\* every person's unit id occurs in the unit id table
MappingTotal ==
    \A p \in DOMAIN sim.person_spm_unit_id :
        sim.person_spm_unit_id[p] \in Range(sim.spm_unit_id)

\* no unit id occurs at two rows of the table
UnitIdsUnique ==
    \A i, j \in DOMAIN sim.spm_unit_id :
        sim.spm_unit_id[i] = sim.spm_unit_id[j] => i = j

\* C1: with every person's unit id in the table and unique unit ids, the
\* mapper returns one entry per person, in person order, and entry p is the
\* value stored at the row of the unit whose id is person p's unit id.
C1_MapGivesUnitValue ==
    (call.op = "_map_spm_to_person" /\ MappingTotal /\ UnitIdsUnique) =>
        /\ result.status = "ok"
        /\ DOMAIN result.value = DOMAIN sim.person_spm_unit_id
        /\ \A p \in DOMAIN sim.person_spm_unit_id :
              \A u \in DOMAIN sim.spm_unit_id :
                 sim.spm_unit_id[u] = sim.person_spm_unit_id[p] =>
                     result.value[p] = call.spm_values[u]

\* two persons of two different units, listed in the opposite order of the
\* unit table, receive two different values
C1_Witness ==
    /\ call.op = "_map_spm_to_person" /\ MappingTotal /\ UnitIdsUnique
    /\ Len(sim.person_spm_unit_id) = 2 /\ Len(sim.spm_unit_id) = 2
    /\ sim.person_spm_unit_id[1] = sim.spm_unit_id[2]
    /\ sim.person_spm_unit_id[2] = sim.spm_unit_id[1]
    /\ call.spm_values[1] # call.spm_values[2]
    /\ result.status = "ok"
    /\ result.value = <<call.spm_values[2], call.spm_values[1]>>

\* the sum of the values of the persons whose unit id is the id of row u
MemberSum(u) ==
    Sum([p \in DOMAIN sim.person_spm_unit_id |->
            IF sim.person_spm_unit_id[p] = sim.spm_unit_id[u]
            THEN call.person_vals[p] ELSE 0])

\* C2: for a total person-to-unit mapping the aggregate of every unit is the
\* sum of the values of exactly its members (0 for a unit without members),
\* and the aggregates sum to the sum of the person values.
C2_AggregateSumsMembers ==
    (call.op = "_aggregate_person_to_spm" /\ MappingTotal) =>
        /\ result.status = "ok"
        /\ DOMAIN result.value = DOMAIN sim.spm_unit_id
        /\ Sum(result.value) = Sum(call.person_vals)
        /\ UnitIdsUnique =>
              \A u \in DOMAIN sim.spm_unit_id : result.value[u] = MemberSum(u)

\* a unit with two members carrying non-zero values beside a unit with none
C2_Witness ==
    /\ call.op = "_aggregate_person_to_spm" /\ MappingTotal /\ UnitIdsUnique
    /\ Len(sim.spm_unit_id) = 2 /\ Len(sim.person_spm_unit_id) = 2
    /\ sim.person_spm_unit_id[1] = sim.spm_unit_id[2]
    /\ sim.person_spm_unit_id[2] = sim.spm_unit_id[2]
    /\ call.person_vals[1] > 0 /\ call.person_vals[2] > 0
    /\ result.status = "ok"
    /\ result.value = <<0, call.person_vals[1] + call.person_vals[2]>>

\* C14: when the unit id table holds the same id at two rows, the unit
\* mapper (_map_spm_to_person, _aggregate_person_to_spm) fails instead of
\* returning a result.
C14_DuplicateIdsFail ==
    (call.op \in {"_map_spm_to_person", "_aggregate_person_to_spm"}
       /\ ~UnitIdsUnique) =>
        result.status # "ok"


(***************************************************************************)
(* The counterfactual engine applied to a sample of persons in two SPM     *)
(* units.  The unit table lists the ids in another order than their value, *)
(* so that a row is never its own id.                                      *)
(***************************************************************************)
SampleUnitIds == <<2, 1>>

\* one person: the id of its unit, the child flag, the survey weight
PersonRows == [unit : Range(SampleUnitIds), is_child : {0, 1}, weight : {0, 1, 2}]

\* one SPM unit: net income and poverty threshold
UnitRows == [net : {0, 1, 2}, thr : {1, 2}]

\* a benefit may be negative (a tax)
Benefits == {-1, 0, 1}

Column(rows, f) == [i \in DOMAIN rows |-> rows[i][f]]

\* the sample of the given persons and units; the reported net income of a
\* unit is its computed net income and person_in_poverty is the flag of the
\* person's unit
EffectSample(persons, units) ==
    LET base == [EmptySim EXCEPT
                    !.spm_unit_id = SampleUnitIds,
                    !.person_spm_unit_id = Column(persons, "unit"),
                    !.is_child = Column(persons, "is_child"),
                    !.person_weight = Column(persons, "weight"),
                    !.spm_unit_weight = [u \in DOMAIN units |-> 1],
                    !.spm_unit_net_income = Column(units, "net"),
                    !.spm_unit_net_income_reported = Column(units, "net"),
                    !.spm_unit_spm_threshold = Column(units, "thr")]
        rows == IdToIdx(SampleUnitIds)
    IN  [base EXCEPT !.person_in_poverty =
            [p \in DOMAIN persons |->
                IF units[rows[persons[p].unit]].net
                     < units[rows[persons[p].unit]].thr THEN 1 ELSE 0]]

InitEffect ==
    /\ \E persons \in SeqsUpTo(PersonRows, MaxPersons),
          units \in [DOMAIN SampleUnitIds -> UnitRows] :
          sim = EffectSample(persons, units)
    /\ call = NoCall
    /\ result = NoResult

\* effect(benefit_spm) as compute_program_effects calls it: with the net
\* income and the threshold of the sample mapped to persons
CallProgramEffect ==
    /\ call.op = "none"
    /\ \E benefit_spm \in [DOMAIN sim.spm_unit_id -> Benefits] :
          LET net_p == MapSpmToPerson(sim, sim.spm_unit_net_income).value
              thr_p == MapSpmToPerson(sim, sim.spm_unit_spm_threshold).value
          IN  /\ call' = [ op |-> "_program_effect",
                           benefit_spm |-> benefit_spm,
                           spm_net_income_person |-> net_p,
                           spm_threshold_person |-> thr_p ]
              /\ result' = ProgramEffect(sim, benefit_spm, net_p, thr_p)
    /\ UNCHANGED sim

CallChildPovertyRate ==
    /\ call.op = "none"
    /\ call' = [op |-> "compute_child_poverty_rate"]
    /\ result' = ComputeChildPovertyRate(sim)
    /\ UNCHANGED sim

NextEffect == CallProgramEffect \/ CallChildPovertyRate

SpecEffect == InitEffect /\ [][NextEffect]_vars

\* C3: for every person whose unit's contribution is >= 0 the counterfactual
\* flag is >= the baseline flag; when no contribution is negative (weights
\* being non-negative) children_lifted and total_lifted are >= 0 and
\* rate_without >= rate_with.
C3_CounterfactualSign ==
    (call.op = "_program_effect" /\ "locals" \in DOMAIN result) =>
        /\ \A p \in DOMAIN sim.is_child :
              result.locals.benefit_person[p] >= 0 =>
                  result.locals.poor_without[p] >= result.locals.is_poor[p]
        /\ ( /\ result.status = "ok"
             /\ \A p \in DOMAIN sim.is_child :
                   result.locals.benefit_person[p] >= 0 ) =>
              /\ result.value.children_lifted >= 0
              /\ result.value.total_lifted >= 0
              /\ RatLeq(result.value.rate_with, result.value.rate_without)

\* a child is pushed below the threshold by the removal of a positive
\* contribution while the other person of the sample is not
C3_Witness ==
    /\ call.op = "_program_effect" /\ result.status = "ok"
    /\ \A p \in DOMAIN sim.is_child : result.locals.benefit_person[p] >= 0
    /\ \E p, q \in DOMAIN sim.is_child :
          /\ sim.is_child[p] = 1 /\ sim.person_weight[p] > 0
          /\ result.locals.benefit_person[p] > 0
          /\ result.locals.is_poor[p] = 0 /\ result.locals.poor_without[p] = 1
          /\ result.locals.benefit_person[q] > 0
          /\ result.locals.is_poor[q] = 0 /\ result.locals.poor_without[q] = 0
    /\ result.value.children_lifted > 0
    /\ RatLess(result.value.rate_with, result.value.rate_without)

\* C5: a resource equal to the threshold is never flagged poor and a
\* resource strictly below it always is, in the baseline flag and the
\* counterfactual flag of _program_effect (both against the same threshold
\* array) and in the reported flag of compute_child_poverty_rate.
C5_StrictThreshold ==
    /\ (call.op = "_program_effect" /\ "locals" \in DOMAIN result) =>
          \A p \in DOMAIN sim.is_child :
             LET net == call.spm_net_income_person[p]
                 thr == call.spm_threshold_person[p]
                 without == net - result.locals.benefit_person[p]
             IN  /\ net = thr => result.locals.is_poor[p] = 0
                 /\ net < thr => result.locals.is_poor[p] = 1
                 /\ without = thr => result.locals.poor_without[p] = 0
                 /\ without < thr => result.locals.poor_without[p] = 1
    /\ (call.op = "compute_child_poverty_rate" /\ "locals" \in DOMAIN result) =>
          \A u \in DOMAIN sim.spm_unit_id :
             LET net == sim.spm_unit_net_income_reported[u]
                 thr == sim.spm_unit_spm_threshold[u]
             IN  /\ net = thr => result.locals.reported_poor_spm[u] = 0
                 /\ net < thr => result.locals.reported_poor_spm[u] = 1

\* the removal of a positive benefit leaves a person exactly at the
\* threshold, not poor; another person is at the threshold at baseline
C5_Witness ==
    /\ call.op = "_program_effect" /\ result.status = "ok"
    /\ \E p, q \in DOMAIN sim.is_child :
          /\ result.locals.benefit_person[p] > 0
          /\ result.locals.net_without[p] = call.spm_threshold_person[p]
          /\ result.locals.poor_without[p] = 0
          /\ call.spm_net_income_person[q] = call.spm_threshold_person[q]
          /\ result.locals.is_poor[q] = 0
          /\ result.locals.poor_without[q] = 1
          /\ call.spm_threshold_person[p] # call.spm_threshold_person[q]

\* the sample has no child, or its children have zero total weight
ChildGroupDegenerate ==
    Sum(Mask(sim.person_weight, ChildMask(sim))) = 0

\* C12: when the child subgroup is empty or has zero total weight,
\* _program_effect returns rate_with = 0.0, rate_without = 0.0 and
\* children_lifted = 0 and raises nothing.
C12_DegenerateChildGroupReturnsZero ==
    (call.op = "_program_effect" /\ ChildGroupDegenerate) =>
        /\ result.status = "ok"
        /\ RatEq(result.value.rate_with, Zero)
        /\ RatEq(result.value.rate_without, Zero)
        /\ result.value.children_lifted = 0


(***************************************************************************)
(* compute_program_effects applied to a sample in which every SPM unit is  *)
(* one tax unit, the EITC and the refundable CTC of each tax unit are      *)
(* non-negative and the other programs pay nothing.                        *)
(***************************************************************************)
Credits == {0, 1}

ProgramPersonRows == [unit : Range(SampleUnitIds), is_child : {0, 1}, weight : {0, 1}]

ProgramSample(persons, units, eitc, rctc) ==
    LET zero_u == [u \in DOMAIN units |-> 0]
        zero_p == [p \in DOMAIN persons |-> 0]
    IN  [EffectSample(persons, units) EXCEPT
            !.tax_unit_id = SampleUnitIds,
            !.person_tax_unit_id = Column(persons, "unit"),
            !.snap = zero_u,
            !.social_security = zero_p,
            !.ssi = zero_p,
            !.spm_unit_capped_housing_subsidy = zero_u,
            !.free_school_meals = zero_u,
            !.reduced_price_school_meals = zero_u,
            !.eitc = eitc,
            !.refundable_ctc = rctc]

InitPrograms ==
    /\ \E persons \in SeqsUpTo(ProgramPersonRows, MaxPersons),
          units \in [DOMAIN SampleUnitIds -> UnitRows],
          eitc \in [DOMAIN SampleUnitIds -> Credits],
          rctc \in [DOMAIN SampleUnitIds -> Credits] :
          sim = ProgramSample(persons, units, eitc, rctc)
    /\ call = NoCall
    /\ result = NoResult

CallComputeProgramEffects ==
    /\ call.op = "none"
    /\ call' = [op |-> "compute_program_effects"]
    /\ result' = ComputeProgramEffects(sim)
    /\ UNCHANGED sim

NextPrograms == CallComputeProgramEffects

SpecPrograms == InitPrograms /\ [][NextPrograms]_vars

\* the record of a program in the returned list
RecordOf(prog) ==
    LET i == CHOOSE i \in DOMAIN result.value : result.value[i].program = prog
    IN  result.value[i]

ReturnedAll ==
    /\ call.op = "compute_program_effects"
    /\ result.status = "ok"
    /\ Len(result.value) = Len(Programs)

CreditsNonNegative ==
    \A u \in DOMAIN sim.eitc : sim.eitc[u] >= 0 /\ sim.refundable_ctc[u] >= 0

\* C4 as stated: children_lifted of the combined credits lies between the
\* larger of the two separate children_lifted and their sum.
C4_CombinedBetweenMaxAndSum ==
    (ReturnedAll /\ CreditsNonNegative) =>
        LET a == RecordOf("eitc").children_lifted
            b == RecordOf("refundable_ctc").children_lifted
            ab == RecordOf("refundable_credits").children_lifted
        IN  /\ ab >= a /\ ab >= b
            /\ ab <= a + b

\* C4 amended: children_lifted of the combined credits is at least the
\* larger of the two separate children_lifted (it may exceed their sum).
C4_CombinedAtLeastMax ==
    (ReturnedAll /\ CreditsNonNegative) =>
        LET a == RecordOf("eitc").children_lifted
            b == RecordOf("refundable_ctc").children_lifted
            ab == RecordOf("refundable_credits").children_lifted
        IN  ab >= a /\ ab >= b

\* the two credits lift different children and the combined credits lift
\* both
C4_Witness ==
    /\ ReturnedAll /\ CreditsNonNegative
    /\ RecordOf("eitc").children_lifted > 0
    /\ RecordOf("refundable_ctc").children_lifted > 0
    /\ RecordOf("refundable_credits").children_lifted
          = RecordOf("eitc").children_lifted
              + RecordOf("refundable_ctc").children_lifted

(***************************************************************************)
(* The quantile grouper applied to weighted records.                       *)
(***************************************************************************)
MaxRecords == 3

\* one record: the ranking value (incomes may be negative) and the weight
RecordRows == [value : {-1, 0, 1, 3}, weight : {0, 1, 2}]

InitQuantile ==
    /\ \E records \in SeqsUpTo(RecordRows, MaxRecords) :
          sim = [EmptySim EXCEPT
                    !.spm_unit_total_income_reported = Column(records, "value"),
                    !.spm_unit_weight = Column(records, "weight")]
    /\ call = NoCall
    /\ result = NoResult

CallAssignDecile ==
    /\ call.op = "none"
    /\ \E sorted_idx \in ArgSorts(sim.spm_unit_total_income_reported) :
          /\ call' = [ op |-> "_assign_decile",
                       values |-> sim.spm_unit_total_income_reported,
                       weights |-> sim.spm_unit_weight,
                       n_buckets |-> Len(DecileFractions) + 1 ]
          /\ result' = Ok(AssignDecile(sim.spm_unit_total_income_reported,
                                       sim.spm_unit_weight, sorted_idx))
    /\ UNCHANGED sim

CallAssignQuintile ==
    /\ call.op = "none"
    /\ \E sorted_idx \in ArgSorts(sim.spm_unit_total_income_reported) :
          /\ call' = [ op |-> "_assign_quintile",
                       values |-> sim.spm_unit_total_income_reported,
                       weights |-> sim.spm_unit_weight,
                       n_buckets |-> Len(QuintileFractions) + 1 ]
          /\ result' = Ok(AssignQuintile(sim.spm_unit_total_income_reported,
                                         sim.spm_unit_weight, sorted_idx))
    /\ UNCHANGED sim

CallWeightedQuantiles ==
    /\ call.op = "none"
    /\ \E quantiles \in {DecileFractions, QuintileFractions},
          sorted_idx \in ArgSorts(sim.spm_unit_total_income_reported) :
          /\ call' = [ op |-> "_weighted_quantiles",
                       values |-> sim.spm_unit_total_income_reported,
                       weights |-> sim.spm_unit_weight,
                       quantiles |-> quantiles ]
          /\ result' = Ok(WeightedQuantiles(sim.spm_unit_total_income_reported,
                                            sim.spm_unit_weight, quantiles,
                                            sorted_idx))
    /\ UNCHANGED sim

NextQuantile == CallWeightedQuantiles \/ CallAssignDecile \/ CallAssignQuintile

SpecQuantile == InitQuantile /\ [][NextQuantile]_vars

Assigned == call.op \in {"_assign_decile", "_assign_quintile"}

\* the number of breakpoints strictly smaller than the value v
BreakpointsBelow(v) ==
    Cardinality({k \in DOMAIN result.value.breakpoints :
                    RatLess(result.value.breakpoints[k], RatOf(v))})

\* C6: every record's bucket is the number of breakpoints strictly smaller
\* than its value, so it is bucket k exactly when the value exceeds
\* breakpoint k-1 and does not exceed breakpoint k; every bucket lies in
\* 0..n_buckets-1; deciles and quintiles follow the same rule.
C6_BucketRule ==
    Assigned =>
        LET bp == result.value.breakpoints
            n == call.n_buckets
        IN  \A r \in DOMAIN call.values :
               LET v == RatOf(call.values[r])
                   b == result.value.buckets[r]
               IN  /\ b = BreakpointsBelow(call.values[r])
                   /\ b \in 0..(n - 1)
                   /\ \A k \in 0..(n - 1) :
                         b = k <=>
                            /\ k = 0 \/ RatLess(bp[k], v)
                            /\ k = n - 1 \/ RatLeq(v, bp[k + 1])

\* a record whose value equals a breakpoint stays in the lower bucket while
\* a larger record is in a higher one
C6_Witness ==
    /\ call.op = "_assign_decile"
    /\ \E r, r2 \in DOMAIN call.values : \E k \in DOMAIN result.value.breakpoints :
          /\ RatEq(result.value.breakpoints[k], RatOf(call.values[r]))
          /\ result.value.buckets[r] = k - 1
          /\ k > 1
          /\ result.value.buckets[r2] > k

Min(S) == CHOOSE x \in S : \A y \in S : x <= y

PositiveWeights == \A r \in DOMAIN call.weights : call.weights[r] > 0

\* C7: for values in any order, ties included, and positive weights, the
\* breakpoints of _weighted_quantiles for increasing fractions are
\* non-decreasing and each lies between the smallest and the largest value.
C7_QuantilesMonotone ==
    (call.op = "_weighted_quantiles" /\ PositiveWeights) =>
        /\ DOMAIN result.value = DOMAIN call.quantiles
        /\ \A k, l \in DOMAIN result.value :
              k < l => RatLeq(result.value[k], result.value[l])
        /\ \A k \in DOMAIN result.value :
              /\ RatLeq(RatOf(Min(Range(call.values))), result.value[k])
              /\ RatLeq(result.value[k], RatOf(Max(Range(call.values))))

\* unsorted input with a tie: the deciles start at the smallest value,
\* increase strictly somewhere and stay below the largest value
C7_Witness ==
    /\ call.op = "_weighted_quantiles" /\ PositiveWeights
    /\ call.quantiles = DecileFractions
    /\ Len(call.values) = 3
    /\ call.values[1] > call.values[2] /\ call.values[2] = call.values[3]
    /\ call.weights[2] # call.weights[3]
    /\ RatEq(result.value[1], RatOf(Min(Range(call.values))))
    /\ RatLess(result.value[1], result.value[9])
    /\ RatLess(result.value[9], RatOf(Max(Range(call.values))))

(***************************************************************************)
(* compute_tax_gap applied to a sample of SPM units.                       *)
(***************************************************************************)
\* one SPM unit: reported income, weight, computed and reported federal tax
TaxRows == [income : {0, 1, 2}, weight : {0, 1, 2}, pe : {0, 2}, rep : {1}]

InitTaxGap ==
    /\ \E units \in SeqsUpTo(TaxRows, MaxRecords) :
          sim = [EmptySim EXCEPT
                    !.spm_unit_total_income_reported = Column(units, "income"),
                    !.spm_unit_weight = Column(units, "weight"),
                    !.spm_unit_federal_tax = Column(units, "pe"),
                    !.spm_unit_federal_tax_reported = Column(units, "rep")]
    /\ call = NoCall
    /\ result = NoResult

CallComputeTaxGap ==
    /\ call.op = "none"
    /\ \E sorted_idx \in ArgSorts(sim.spm_unit_total_income_reported) :
          /\ call' = [op |-> "compute_tax_gap"]
          /\ result' = ComputeTaxGap(sim, sorted_idx)
    /\ UNCHANGED sim

NextTaxGap == CallComputeTaxGap

SpecTaxGap == InitTaxGap /\ [][NextTaxGap]_vars

\* decile i (1..10) holds at least one record
NonEmptyDecile(i) ==
    \E r \in DOMAIN result.locals.deciles : result.locals.deciles[r] = i - 1

TaxGapReturned == call.op = "compute_tax_gap" /\ result.status = "ok"

\* C8 as stated: mean_income is non-decreasing from decile 1 to decile 10.
C8_MeanIncomeNonDecreasing ==
    TaxGapReturned =>
        \A i, j \in DOMAIN result.value :
           i < j => RatLeq(result.value[i].mean_income, result.value[j].mean_income)

\* C8 amended: mean_income is non-decreasing over the deciles that hold at
\* least one record, in decile order (an empty decile reports 0.0).
C8_MeanIncomeNonDecreasingOverNonEmpty ==
    TaxGapReturned =>
        \A i, j \in DOMAIN result.value :
           (i < j /\ NonEmptyDecile(i) /\ NonEmptyDecile(j)) =>
               RatLeq(result.value[i].mean_income, result.value[j].mean_income)

\* two non-empty deciles with strictly increasing positive means, in a
\* sample with two tied records of different weights
C8_Witness ==
    /\ TaxGapReturned
    /\ \E r1, r2 \in DOMAIN sim.spm_unit_weight :
          /\ r1 # r2
          /\ sim.spm_unit_total_income_reported[r1]
                = sim.spm_unit_total_income_reported[r2]
          /\ sim.spm_unit_weight[r1] # sim.spm_unit_weight[r2]
    /\ \E i, j \in DOMAIN result.value :
          /\ i < j /\ NonEmptyDecile(i) /\ NonEmptyDecile(j)
          /\ RatLess(Zero, result.value[i].mean_income)
          /\ RatLess(result.value[i].mean_income, result.value[j].mean_income)

\* C9: compute_tax_gap returns exactly 10 records labelled 1..10 in order,
\* whatever the records and their weights; in each record gap is
\* pe_federal_tax minus reported_federal_tax, and a decile without records
\* reports 0 for mean_income, both taxes and gap.
C9_TenDecileRecords ==
    call.op = "compute_tax_gap" =>
        /\ result.status = "ok"
        /\ Len(result.value) = 10
        /\ \A i \in DOMAIN result.value :
              /\ result.value[i].decile = i
              /\ RatEq(result.value[i].gap,
                       RatSub(result.value[i].pe_federal_tax,
                              result.value[i].reported_federal_tax))
              /\ ~NonEmptyDecile(i) =>
                    /\ RatEq(result.value[i].mean_income, Zero)
                    /\ RatEq(result.value[i].pe_federal_tax, Zero)
                    /\ RatEq(result.value[i].reported_federal_tax, Zero)
                    /\ RatEq(result.value[i].gap, Zero)

(***************************************************************************)
(* compute_child_poverty_rate applied to a sample, some of whose variables *)
(* other than is_child the provider may not know.                          *)
(***************************************************************************)
\* one person: unit id, child flag, weight, computed poverty flag
PovertyPersonRows ==
    [unit : Range(SampleUnitIds), is_child : {0, 1}, weight : {0, 1, 2},
     in_poverty : {0, 1}]

\* the reported net income of a unit; the threshold of every unit is 1
ReportedIncomes == {0, 1, 2}

\* the variables compute_child_poverty_rate queries after is_child
PovertyOtherVars ==
    { "person_weight", "person_in_poverty", "spm_unit_net_income_reported",
      "spm_unit_spm_threshold", "spm_unit_id", "person_spm_unit_id" }

\* none missing, one missing, all missing
MissingChoices == {{}} \cup {{v} : v \in PovertyOtherVars} \cup {PovertyOtherVars}

\* the provider without the variables of m: it holds no array for them
Without(s, m) ==
    [f \in DOMAIN s |->
        IF f = "missing" THEN m ELSE IF f \in m THEN <<>> ELSE s[f]]

PovertySample(persons, reported, missing) ==
    Without([EmptySim EXCEPT
                !.spm_unit_id = SampleUnitIds,
                !.person_spm_unit_id = Column(persons, "unit"),
                !.is_child = Column(persons, "is_child"),
                !.person_weight = Column(persons, "weight"),
                !.person_in_poverty = Column(persons, "in_poverty"),
                !.spm_unit_net_income_reported = reported,
                !.spm_unit_spm_threshold = [u \in DOMAIN reported |-> 1]],
            missing)

InitPoverty ==
    /\ \E persons \in SeqsUpTo(PovertyPersonRows, MaxPersons),
          reported \in [DOMAIN SampleUnitIds -> ReportedIncomes],
          missing \in MissingChoices :
          sim = PovertySample(persons, reported, missing)
    /\ call = NoCall
    /\ result = NoResult

NextPoverty == CallChildPovertyRate

SpecPoverty == InitPoverty /\ [][NextPoverty]_vars

NoChildInSample ==
    /\ Has(sim, "is_child")
    /\ \A p \in DOMAIN sim.is_child : sim.is_child[p] # 1

\* C10: on a sample without any child compute_child_poverty_rate returns
\* {computed: 0.0, reported: 0.0} and raises nothing, whatever the other
\* variables hold and whether or not the provider knows them.
C10_NoChildReturnsZero ==
    (call.op = "compute_child_poverty_rate" /\ NoChildInSample) =>
        /\ result.status = "ok"
        /\ result.value = [computed |-> Rat(0, 1), reported |-> Rat(0, 1)]

\* two adults, and a provider that knows none of the other variables
C10_Witness ==
    /\ call.op = "compute_child_poverty_rate" /\ NoChildInSample
    /\ Len(sim.is_child) = 2
    /\ sim.missing = PovertyOtherVars
    /\ result.status = "ok"
    /\ result.value = [computed |-> Rat(0, 1), reported |-> Rat(0, 1)]

\* the sample has a child and its children have zero total weight
ChildrenWithoutWeight ==
    /\ HasAll(sim, <<"is_child", "person_weight">>)
    /\ NpAny(ChildMask(sim))
    /\ Sum(Mask(sim.person_weight, ChildMask(sim))) = 0

\* C11: when the sample holds at least one child and the children's total
\* weight is zero, compute_child_poverty_rate returns 0.0 for both rates
\* and raises nothing.
C11_ZeroChildWeightReturnsZero ==
    (call.op = "compute_child_poverty_rate" /\ ChildrenWithoutWeight
       /\ sim.missing = {}) =>
        /\ result.status = "ok"
        /\ RatEq(result.value.computed, Zero)
        /\ RatEq(result.value.reported, Zero)

\* the sum of weight x flag over the children among the first k persons
RECURSIVE ChildWeightedSumTo(_, _, _, _)
ChildWeightedSumTo(is_child, weight, flag, k) ==
    IF k = 0 THEN 0
    ELSE ChildWeightedSumTo(is_child, weight, flag, k - 1)
           + (IF is_child[k] = 1 THEN weight[k] * flag[k] ELSE 0)

\* the sum of weight x flag over the children of the sample
ChildWeightedSum(s, flag) ==
    ChildWeightedSumTo(s.is_child, s.person_weight, flag, Len(s.is_child))

\* 1 for each person
Ones(s) == [p \in DOMAIN s.is_child |-> 1]

\* for each person, whether the reported net income of the person's SPM
\* unit is below the unit's threshold
UnitReportedPoor(s) ==
    [p \in DOMAIN s.person_spm_unit_id |->
        LET u == CHOOSE u \in DOMAIN s.spm_unit_id :
                     s.spm_unit_id[u] = s.person_spm_unit_id[p]
        IN  IF s.spm_unit_net_income_reported[u] < s.spm_unit_spm_threshold[u]
            THEN 1 ELSE 0]

\* the sample without its adults
ChildrenOnly(s) ==
    LET children == [p \in DOMAIN s.is_child |-> s.is_child[p] = 1]
    IN  [s EXCEPT !.person_spm_unit_id = Mask(s.person_spm_unit_id, children),
                  !.is_child = Mask(s.is_child, children),
                  !.person_weight = Mask(s.person_weight, children),
                  !.person_in_poverty = Mask(s.person_in_poverty, children)]

\* the provider knows every variable and the children's total weight is
\* positive
ChildrenWithWeight ==
    /\ sim.missing = {}
    /\ ChildWeightedSum(sim, Ones(sim)) > 0

\* C23: when the children have positive total weight,
\* compute_child_poverty_rate returns computed = (sum of weight x
\* person_in_poverty over children) / (sum of weight over children) and
\* reported = the same weighted mean of "the child's SPM unit has reported
\* net income < threshold"; the rates are those of the sample without its
\* adults.
C23_WeightedChildRate ==
    (call.op = "compute_child_poverty_rate" /\ ChildrenWithWeight) =>
        LET child_weight == ChildWeightedSum(sim, Ones(sim))
            children == ComputeChildPovertyRate(ChildrenOnly(sim))
        IN  /\ result.status = "ok"
            /\ RatEq(result.value.computed,
                     Rat(ChildWeightedSum(sim, sim.person_in_poverty),
                         child_weight))
            /\ RatEq(result.value.reported,
                     Rat(ChildWeightedSum(sim, UnitReportedPoor(sim)),
                         child_weight))
            /\ RatEq(result.value.computed, children.value.computed)
            /\ RatEq(result.value.reported, children.value.reported)

\* a poor child of weight 2 and a child of weight 1 that is not poor, in
\* units whose reported incomes put only the second below the threshold
C23_Witness ==
    /\ call.op = "compute_child_poverty_rate" /\ ChildrenWithWeight
    /\ sim.is_child = <<1, 1>>
    /\ sim.person_weight = <<2, 1>>
    /\ sim.person_in_poverty = <<1, 0>>
    /\ RatEq(result.value.computed, Rat(2, 3))
    /\ RatEq(result.value.reported, Rat(1, 3))

(***************************************************************************)
(* compute_demographic_breakdowns applied to a sample of persons of two    *)
(* SPM units, one poor and one not; the provider may lack cps_race or      *)
(* is_hispanic.                                                            *)
(***************************************************************************)
\* one person: child flag, weight, age, race code, Hispanic flag
DemographicRows ==
    [is_child : {0, 1}, weight : {0, 1}, age : {3, 8}, cps_race : {1, 2},
     is_hispanic : {0, 1}]

\* person p belongs to the unit of row 1 or row 2 in turn
AlternatingUnits(n) == [p \in 1..n |-> SampleUnitIds[((p - 1) % 2) + 1]]

DemographicSample(persons, net, missing) ==
    Without([EmptySim EXCEPT
                !.spm_unit_id = SampleUnitIds,
                !.person_spm_unit_id = AlternatingUnits(Len(persons)),
                !.is_child = Column(persons, "is_child"),
                !.person_weight = Column(persons, "weight"),
                !.age = Column(persons, "age"),
                !.cps_race = Column(persons, "cps_race"),
                !.is_hispanic = Column(persons, "is_hispanic"),
                !.spm_unit_net_income = net,
                !.spm_unit_spm_threshold = [u \in DOMAIN net |-> 1]],
            missing)

InitDemographics ==
    /\ \E persons \in SeqsUpTo(DemographicRows, MaxPersons),
          net \in {<<0, 1>>, <<1, 0>>},
          missing \in {{}, {"cps_race"}, {"is_hispanic"}} :
          sim = DemographicSample(persons, net, missing)
    /\ call = NoCall
    /\ result = NoResult

CallDemographicBreakdowns ==
    /\ call.op = "none"
    /\ call' = [op |-> "compute_demographic_breakdowns"]
    /\ result' = ComputeDemographicBreakdowns(sim)
    /\ UNCHANGED sim

NextDemographics == CallDemographicBreakdowns

SpecDemographics == InitDemographics /\ [][NextDemographics]_vars

\* the number of records of by_race whose group is a label of groups
GroupsReturned(groups) ==
    Cardinality({i \in DOMAIN result.value.by_race :
                    \E g \in DOMAIN groups :
                       result.value.by_race[i].group = groups[g].label})

\* C16: the only failures compute_demographic_breakdowns swallows are the
\* provider's missing-variable errors for cps_race and is_hispanic: when it
\* returns, by_race holds all the groups of each variable the provider
\* knows and none of a variable it does not know, never a prefix of them.
C16_OnlyMissingVariableSwallowed ==
    (call.op = "compute_demographic_breakdowns" /\ result.status = "ok") =>
        /\ GroupsReturned(RaceGroups)
              = (IF Has(sim, "cps_race") THEN Len(RaceGroups) ELSE 0)
        /\ GroupsReturned(HispanicGroups)
              = (IF Has(sim, "is_hispanic") THEN Len(HispanicGroups) ELSE 0)

(***************************************************************************)
(* The assemblers applied to a sample whose persons may carry an SPM unit  *)
(* id or a tax unit id that the unit tables do not hold.  The provider     *)
(* knows every variable.                                                   *)
(***************************************************************************)
\* the ids a person may carry: those of SampleUnitIds and one more
FaultIds == Range(SampleUnitIds) \cup {Len(SampleUnitIds) + 1}

\* one person: SPM unit id, tax unit id, child flag, weight
FaultRows ==
    [unit : FaultIds, tax_unit : FaultIds, is_child : {0, 1}, weight : {0, 1}]

\* two units, the first poor; the first tax unit receives the EITC and the
\* second the refundable CTC
FaultSample(persons) ==
    LET zero_u == [u \in DOMAIN SampleUnitIds |-> 0]
        one_u == [u \in DOMAIN SampleUnitIds |-> 1]
        one_p == [p \in DOMAIN persons |-> 1]
    IN  [EmptySim EXCEPT
            !.spm_unit_id = SampleUnitIds,
            !.tax_unit_id = SampleUnitIds,
            !.person_spm_unit_id = Column(persons, "unit"),
            !.person_tax_unit_id = Column(persons, "tax_unit"),
            !.is_child = Column(persons, "is_child"),
            !.person_weight = Column(persons, "weight"),
            !.person_in_poverty = one_p,
            !.age = [p \in DOMAIN persons |-> 3],
            !.cps_race = one_p,
            !.is_hispanic = one_p,
            !.tax_unit_is_joint = <<0, 1>>,
            !.spm_unit_weight = one_u,
            !.spm_unit_net_income = <<0, 2>>,
            !.spm_unit_net_income_reported = <<0, 2>>,
            !.spm_unit_spm_threshold = one_u,
            !.snap = zero_u,
            !.social_security = [p \in DOMAIN persons |-> 0],
            !.ssi = [p \in DOMAIN persons |-> 0],
            !.spm_unit_capped_housing_subsidy = zero_u,
            !.free_school_meals = zero_u,
            !.reduced_price_school_meals = zero_u,
            !.eitc = <<1, 0>>,
            !.refundable_ctc = <<0, 1>>]

\* a second sample without any fault, for the operations that take two
SoundSample ==
    FaultSample(<< [unit |-> 1, tax_unit |-> 1, is_child |-> 1, weight |-> 1],
                   [unit |-> 2, tax_unit |-> 2, is_child |-> 0, weight |-> 1] >>)

InitFaults ==
    /\ \E persons \in SeqsUpTo(FaultRows, MaxPersons) :
          sim = FaultSample(persons)
    /\ call = NoCall
    /\ result = NoResult

\* compute_weight_rebalancing with the sample as the raw or as the enhanced
\* one, beside the sound sample
CallWeightRebalancing ==
    /\ call.op = "none"
    /\ \E as_raw \in BOOLEAN :
          LET raw_sim == IF as_raw THEN sim ELSE SoundSample
              enhanced_sim == IF as_raw THEN SoundSample ELSE sim
          IN  \E raw_idx \in GroupingSorts(raw_sim),
                 enh_idx \in GroupingSorts(enhanced_sim) :
                 /\ call' = [ op |-> "compute_weight_rebalancing",
                              as_raw |-> as_raw ]
                 /\ result' = ComputeWeightRebalancing(raw_sim, enhanced_sim,
                                                       raw_idx, enh_idx)
    /\ UNCHANGED sim

\* _map_spm_to_person on the sample
CallMapFlags ==
    /\ call.op = "none"
    /\ call' = [op |-> "_map_spm_to_person",
                spm_values |-> sim.spm_unit_spm_threshold]
    /\ result' = MapSpmToPerson(sim, sim.spm_unit_spm_threshold)
    /\ UNCHANGED sim

NextFaults ==
    \/ CallMapFlags
    \/ CallChildPovertyRate
    \/ CallComputeProgramEffects
    \/ CallWeightRebalancing
    \/ CallDemographicBreakdowns

SpecFaults == InitFaults /\ [][NextFaults]_vars

\* some person's SPM unit id is absent from the SPM unit id table
SpmIdAbsent ==
    \E p \in DOMAIN sim.person_spm_unit_id :
       sim.person_spm_unit_id[p] \notin Range(sim.spm_unit_id)

\* some person's tax unit id is absent from the tax unit id table
TaxIdAbsent ==
    \E p \in DOMAIN sim.person_tax_unit_id :
       sim.person_tax_unit_id[p] \notin Range(sim.tax_unit_id)

\* the assemblers that use a mapping the absent id breaks
UsesBrokenMapping ==
    \/ /\ SpmIdAbsent
       /\ call.op \in { "_map_spm_to_person", "compute_child_poverty_rate",
                        "compute_program_effects", "compute_weight_rebalancing",
                        "compute_demographic_breakdowns" }
    \/ /\ TaxIdAbsent
       /\ call.op \in {"compute_program_effects", "compute_weight_rebalancing"}

ProgramVariables ==
    { "snap", "social_security", "ssi", "spm_unit_capped_housing_subsidy",
      "free_school_meals", "reduced_price_school_meals", "eitc",
      "refundable_ctc" }

\* the programs whose benefit is computed from the variable v
ProgramsUsing(v) ==
    CASE v = "snap" -> {"snap"}
      [] v = "social_security" -> {"social_security"}
      [] v = "ssi" -> {"ssi"}
      [] v = "spm_unit_capped_housing_subsidy" -> {"housing"}
      [] v \in {"free_school_meals", "reduced_price_school_meals"} ->
           {"school_meals"}
      [] v = "eitc" -> {"eitc", "refundable_credits"}
      [] v = "refundable_ctc" -> {"refundable_ctc", "refundable_credits"}

\* one person: its unit (SPM unit and tax unit), child flag, weight
SoundRows == [unit : Range(SampleUnitIds), is_child : {0, 1}, weight : {0, 1}]

InitMissing ==
    /\ \E persons \in SeqsUpTo(SoundRows, MaxPersons),
          missing \in {{}} \cup {{v} : v \in ProgramVariables} :
          sim = Without(
                  FaultSample([p \in DOMAIN persons |->
                                  [ unit |-> persons[p].unit,
                                    tax_unit |-> persons[p].unit,
                                    is_child |-> persons[p].is_child,
                                    weight |-> persons[p].weight ]]),
                  missing)
    /\ call = NoCall
    /\ result = NoResult

NextMissing == CallComputeProgramEffects

SpecMissing == InitMissing /\ [][NextMissing]_vars

\* C15: when the provider lacks one program variable (every core variable
\* being present and the children having positive total weight),
\* compute_program_effects returns, without the records of the programs
\* computed from that variable and with the records of all the others.
C15_MissingProgramVariableOmitsOneRecord ==
    (call.op = "compute_program_effects" /\ ~ChildGroupDegenerate) =>
        \A v \in ProgramVariables :
           sim.missing = {v} =>
              /\ result.status = "ok"
              /\ {result.value[i].program : i \in DOMAIN result.value}
                    = Range(Programs) \ ProgramsUsing(v)

(***************************************************************************)
(* compute_state_results over the first regions of STATES.                 *)
(***************************************************************************)
MaxRegions == 3

\* the regions the loops run over
Regions == SubSeq(STATES, 1, MaxRegions)

\* a sample of one child and one adult of weight 1, the child's unit poor by
\* its reported income, with the poverty flag of the child as given
RegionSample(child_poor, child_weight) ==
    PovertySample(<< [unit |-> 1, is_child |-> 1, weight |-> child_weight,
                      in_poverty |-> child_poor],
                     [unit |-> 2, is_child |-> 0, weight |-> 1,
                      in_poverty |-> 0] >>,
                  <<2, 0>>, {})

\* what Microsimulation(dataset=...) may give for a region: a failure, or a
\* provider; the provider may lack person_in_poverty, or hold a child
\* without weight
RegionDatasets ==
    { [load_ok |-> FALSE, sim |-> EmptySim] }
       \cup { [load_ok |-> TRUE, sim |-> RegionSample(poor, w)] :
                 poor \in {0, 1}, w \in {0, 1, 2} }
       \cup { [load_ok |-> TRUE,
               sim |-> Without(RegionSample(1, 1), {"person_in_poverty"})] }

InitStates ==
    /\ \E datasets \in [DOMAIN Regions -> RegionDatasets] :
          sim = [regions |-> datasets]
    /\ call = NoCall
    /\ result = NoResult

CallComputeStateResults ==
    /\ call.op = "none"
    /\ call' = [op |-> "compute_state_results"]
    /\ result' = ComputeStateResults(Regions, sim.regions)
    /\ UNCHANGED sim

NextStates == CallComputeStateResults

SpecStates == InitStates /\ [][NextStates]_vars

\* C17: compute_state_results returns one record per region code, in
\* order, whatever fails while a region is loaded or computed.
C17_OneRecordPerRegion ==
    call.op = "compute_state_results" =>
        /\ result.status = "ok"
        /\ Len(result.value) = Len(Regions)
        /\ \A k \in DOMAIN result.value : result.value[k].state = Regions[k]

(***************************************************************************)
(* The loop of extract_state_data.py over the first regions of STATES.     *)
(***************************************************************************)
\* a dataset of two persons in two SPM units (the first unit poor) with the
\* given child flags, every SPM-unit variable holding the given amounts
ExtractDataset(is_child, amounts, missing) ==
    [ load_ok |-> TRUE,
      missing |-> missing,
      is_child |-> is_child,
      person_weight |-> <<2, 1>>,
      spm_unit_spm_threshold_person |-> <<1, 1>>,
      spm_unit_net_income_person |-> <<0, 2>>,
      spm_unit_net_income_reported_person |-> <<1, 2>>,
      spm_w |-> <<1, 3>>,
      spm_unit_values |-> [v \in Range(SpmTotalVariables) |-> amounts],
      cps_race |-> <<1, 2>>,
      is_hispanic |-> <<0, 1>> ]

\* what a region may be: a dataset that fails to load, a sound one (with or
\* without children), one whose provider lacks a variable queried early or
\* late in the try, one whose provider lacks a demographic variable
ExtractDatasets ==
    { [ExtractDataset(<<1, 0>>, <<0, 0>>, {}) EXCEPT !.load_ok = FALSE],
      ExtractDataset(<<1, 0>>, <<1, 2>>, {}),
      ExtractDataset(<<0, 0>>, <<2, 0>>, {}),
      ExtractDataset(<<1, 1>>, <<1, 2>>, {"is_child"}),
      ExtractDataset(<<1, 1>>, <<1, 2>>, {"wic"}),
      ExtractDataset(<<1, 1>>, <<1, 2>>, {"cps_race"}) }

InitExtract ==
    /\ \E datasets \in [DOMAIN Regions -> ExtractDatasets] :
          sim = [regions |-> datasets]
    /\ call = NoCall
    /\ result = NoResult

\* rows = [] and the loop is entered
StartExtract ==
    /\ call.op = "none"
    /\ call' = [op |-> "extract_state_data", i |-> 0]
    /\ result' = [status |-> "running", value |-> <<>>]
    /\ UNCHANGED sim

\* one iteration of "for i, state in enumerate(STATES)"
ExtractRegion ==
    /\ call.op = "extract_state_data"
    /\ result.status = "running"
    /\ call.i < Len(Regions)
    /\ call' = [call EXCEPT !.i = @ + 1]
    /\ result' = [result EXCEPT !.value =
                     RowsAfterRegion(@, Regions[call.i + 1],
                                     sim.regions[call.i + 1])]
    /\ UNCHANGED sim

\* the loop has ended: df = pd.DataFrame(rows) is saved
FinishExtract ==
    /\ call.op = "extract_state_data"
    /\ result.status = "running"
    /\ call.i = Len(Regions)
    /\ result' = [result EXCEPT !.status = "ok"]
    /\ UNCHANGED <<sim, call>>

NextExtract == StartExtract \/ ExtractRegion \/ FinishExtract

SpecExtract == InitExtract /\ [][NextExtract]_vars

\* the processing of region k fails: its dataset does not load or its
\* provider lacks a variable queried outside the inner try
RegionFails(k) ==
    \/ ~sim.regions[k].load_ok
    \/ \E v \in Range(ExtractVariables) : v \in sim.regions[k].missing

\* C18: while the loop runs rows holds one entry per region processed so
\* far, in STATES order, and after the loop one entry per region code; the
\* entry of a region that failed carries only the region code and the error
\* message, the entry of any other region is its full row (the one its
\* dataset gives when processed alone), whatever happened to the regions
\* before it.
C18_OneEntryPerRegion ==
    call.op = "extract_state_data" =>
        /\ Len(result.value) = call.i
        /\ result.status = "ok" => Len(result.value) = Len(Regions)
        /\ \A k \in DOMAIN result.value :
              /\ result.value[k].state = Regions[k]
              /\ RegionFails(k) =>
                    DOMAIN result.value[k] = {"state", "error"}
              /\ ~RegionFails(k) =>
                    /\ "error" \notin DOMAIN result.value[k]
                    /\ result.value[k] = StateDataRow(Regions[k], sim.regions[k])

\* the loop has ended; the region in the middle failed and the regions
\* around it have their rows
C18_Witness ==
    /\ call.op = "extract_state_data" /\ result.status = "ok"
    /\ Len(result.value) >= 3
    /\ ~RegionFails(1) /\ RegionFails(2) /\ ~RegionFails(3)
    /\ result.value[2] = [state |-> Regions[2], error |-> "wic"]
    /\ result.value[1].total_children > 0
    /\ "cps_race" \in sim.regions[3].missing
    /\ result.value[3].pct_children_white = "None"

(***************************************************************************)
(* The two waterfalls built from the poverty rates of the raw and the      *)
(* enhanced sample.                                                        *)
(***************************************************************************)
\* the rates a sample may have
Rates == {Rat(0, 1), Rat(1, 8), Rat(1, 3), Rat(1, 2)}

InitWaterfall ==
    /\ \E raw_reported \in Rates, raw_computed \in Rates,
          enh_reported \in Rates, enh_computed \in Rates :
          sim = [ raw_poverty |-> [ computed |-> raw_computed,
                                    reported |-> raw_reported ],
                  enhanced_poverty |-> [ computed |-> enh_computed,
                                         reported |-> enh_reported ] ]
    /\ call = NoCall
    /\ result = NoResult

\* the stages and the deltas of the waterfall, stage k + 1 being the one
\* delta k arrives at
CallBuildWaterfall ==
    /\ call.op = "none"
    /\ call' = [op |-> "_build_waterfall"]
    /\ result' =
          LET w == BuildWaterfall(CENSUS_PUBLISHED_CHILD_POVERTY_2024,
                                  sim.raw_poverty, sim.enhanced_poverty)
          IN  [ status |-> "ok", value |-> w,
                stages |-> [k \in DOMAIN w |-> w[k].value],
                deltas |-> [k \in 1..(Len(w) - 1) |-> w[k + 1].delta] ]
    /\ UNCHANGED sim

CallPipelineWaterfall ==
    /\ call.op = "none"
    /\ call' = [op |-> "run_pipeline.main waterfall"]
    /\ result' =
          LET w == PipelineWaterfall(CENSUS_PUBLISHED_CHILD_POVERTY_2024,
                                     sim.raw_poverty, sim.enhanced_poverty)
          IN  [ status |-> "ok", value |-> w,
                stages |-> [k \in DOMAIN w.steps |-> w.steps[k].value],
                deltas |-> [k \in DOMAIN w.deltas |-> w.deltas[k].delta] ]
    /\ UNCHANGED sim

NextWaterfall == CallBuildWaterfall \/ CallPipelineWaterfall

SpecWaterfall == InitWaterfall /\ [][NextWaterfall]_vars

RatAdd(x, y) ==
    IF x.d = y.d THEN Rat(x.n + y.n, x.d)
    ELSE Rat(x.n * y.d + y.n * x.d, x.d * y.d)

RECURSIVE RatSumTo(_, _)
RatSumTo(s, k) == IF k = 0 THEN Zero ELSE RatAdd(RatSumTo(s, k - 1), s[k])

\* |x - y| <= tol
Within(x, y, tol) == RatLeq(RatSub(x, y), tol) /\ RatLeq(RatSub(y, x), tol)

\* C19: in every waterfall built, each delta is the value of its stage
\* minus the value of the stage immediately before it in the list, up to
\* one unit of the fourth decimal, so the deltas sum to the last stage
\* value minus the first, up to one such unit per delta.
C19_DeltasBetweenConsecutiveStages ==
    call.op \in {"_build_waterfall", "run_pipeline.main waterfall"} =>
        /\ \A k \in DOMAIN result.deltas :
              Within(result.deltas[k],
                     RatSub(result.stages[k + 1], result.stages[k]),
                     Rat(1, 10000))
        /\ Within(RatSumTo(result.deltas, Len(result.deltas)),
                  RatSub(result.stages[Len(result.stages)], result.stages[1]),
                  Rat(Len(result.deltas), 10000))

(***************************************************************************)
(* run_pipeline.main, one step per section, on a raw and an enhanced       *)
(* sample and the datasets of the regions, with or without --skip-states.  *)
(***************************************************************************)
\* a sample holding every variable the assemblers of main query
PipelineSample(persons) ==
    [FaultSample([p \in DOMAIN persons |->
                     [ unit |-> persons[p].unit,
                       tax_unit |-> persons[p].unit,
                       is_child |-> persons[p].is_child,
                       weight |-> persons[p].weight ]])
        EXCEPT !.spm_unit_total_income_reported = <<1, 3>>,
               !.spm_unit_federal_tax = <<0, 2>>,
               !.spm_unit_federal_tax_reported = <<1, 1>>]

\* the raw samples: a child and an adult, or two children of one unit
RawSamples ==
    { PipelineSample(<< [unit |-> 1, is_child |-> 1, weight |-> 1],
                        [unit |-> 2, is_child |-> 0, weight |-> 1] >>),
      PipelineSample(<< [unit |-> 2, is_child |-> 1, weight |-> 1],
                        [unit |-> 2, is_child |-> 1, weight |-> 1] >>) }

\* the datasets of the regions: all sound, the first failing to load, or
\* the last holding a child without weight
RegionLists ==
    LET sound == [k \in DOMAIN Regions |->
                     [load_ok |-> TRUE, sim |-> RegionSample(1, 1)]]
    IN  { sound,
          [sound EXCEPT ![1] = [load_ok |-> FALSE, sim |-> EmptySim]],
          [sound EXCEPT ![Len(Regions)] =
              [load_ok |-> TRUE, sim |-> RegionSample(0, 0)]] }

InitPipeline ==
    /\ \E argv \in {{}, {"--skip-states"}},
          raw \in RawSamples,
          persons \in SeqsUpTo(SoundRows, MaxPersons),
          regions \in RegionLists :
          sim = [ argv |-> argv, raw |-> raw,
                  enhanced |-> PipelineSample(persons), regions |-> regions ]
    /\ call = NoCall
    /\ result = NoResult

AtMain(pc) ==
    call.op = "main" /\ call.pc = pc /\ result.status = "running"

\* the step at pc called the assemblers `calls`, the last of which gave
\* outcome; the local variables become locals when it did not raise
MainStep(next_pc, calls, outcome, locals) ==
    /\ call' = [call EXCEPT
                   !.pc = IF outcome.status = "ok" THEN next_pc ELSE "failed",
                   !.trace = @ \o calls]
    /\ result' = IF outcome.status = "ok"
                 THEN [result EXCEPT !.locals = locals]
                 ELSE [status |-> outcome.status, locals |-> result.locals]
    /\ UNCHANGED sim

\* skip_states = "--skip-states" in sys.argv, then the two loads
MainStart ==
    /\ call.op = "none"
    /\ call' = [ op |-> "main", pc |-> "poverty",
                 skip_states |-> "--skip-states" \in sim.argv,
                 trace |-> <<>> ]
    /\ result' = [status |-> "running", locals |-> NoLocals]
    /\ UNCHANGED sim

MainPoverty ==
    /\ AtMain("poverty")
    /\ \E raw \in {ComputeChildPovertyRate(sim.raw)},
          enh \in {ComputeChildPovertyRate(sim.enhanced)} :
          IF raw.status # "ok"
          THEN MainStep("program_effects",
                        <<"compute_child_poverty_rate(raw)">>, raw,
                        result.locals)
          ELSE MainStep("program_effects",
                        << "compute_child_poverty_rate(raw)",
                           "compute_child_poverty_rate(enhanced)" >>, enh,
                        [result.locals EXCEPT
                            !.raw_poverty = raw.value,
                            !.enhanced_poverty = enh.value])

MainProgramEffects ==
    /\ AtMain("program_effects")
    /\ \E r \in {ComputeProgramEffects(sim.enhanced)} :
          MainStep("demographics", <<"compute_program_effects(enhanced)">>,
                   r, [result.locals EXCEPT !.program_effects = r.value])

MainDemographics ==
    /\ AtMain("demographics")
    /\ \E r \in {ComputeDemographicBreakdowns(sim.enhanced)} :
          MainStep("weight_rebalancing",
                   <<"compute_demographic_breakdowns(enhanced)">>, r,
                   [result.locals EXCEPT !.demographics = r.value])

MainWeightRebalancing ==
    /\ AtMain("weight_rebalancing")
    /\ \E raw_idx \in GroupingSorts(sim.raw),
          enh_idx \in GroupingSorts(sim.enhanced) :
          \E r \in {ComputeWeightRebalancing(sim.raw, sim.enhanced,
                                             raw_idx, enh_idx)} :
             MainStep("tax_gap",
                      <<"compute_weight_rebalancing(raw, enhanced)">>, r,
                      [result.locals EXCEPT !.weight_rebalancing = r.value])

MainTaxGap ==
    /\ AtMain("tax_gap")
    /\ \E sorted_idx \in ArgSorts(sim.enhanced.spm_unit_total_income_reported) :
          \E r \in {ComputeTaxGap(sim.enhanced, sorted_idx)} :
             MainStep("states", <<"compute_tax_gap(enhanced)">>,
                      [status |-> r.status],
                      [result.locals EXCEPT !.tax_gap = r.value])

\* if skip_states: state_results = []
MainSkipStates ==
    /\ AtMain("states")
    /\ call.skip_states
    /\ MainStep("output", <<>>, Ok(<<>>), SkipStates(result.locals))

\* else: state_results = compute_state_results(period=YEAR)
MainStates ==
    /\ AtMain("states")
    /\ ~call.skip_states
    /\ \E r \in {ComputeStateResults(Regions, sim.regions)} :
          MainStep("output", <<"compute_state_results()">>, r,
                   [result.locals EXCEPT !.state_results = r.value])

\* the output dict is built and written
MainOutput ==
    /\ AtMain("output")
    /\ call' = [call EXCEPT !.pc = "done"]
    /\ result' = [ status |-> "ok", locals |-> result.locals,
                   value |-> BuildOutput(result.locals) ]
    /\ UNCHANGED sim

NextPipeline ==
    \/ MainStart
    \/ MainPoverty
    \/ MainProgramEffects
    \/ MainDemographics
    \/ MainWeightRebalancing
    \/ MainTaxGap
    \/ MainSkipStates
    \/ MainStates
    \/ MainOutput

SpecPipeline == InitPipeline /\ [][NextPipeline]_vars

\* the assembler calls of main apart from compute_state_results, in order
SectionCalls ==
    << "compute_child_poverty_rate(raw)",
       "compute_child_poverty_rate(enhanced)",
       "compute_program_effects(enhanced)",
       "compute_demographic_breakdowns(enhanced)",
       "compute_weight_rebalancing(raw, enhanced)",
       "compute_tax_gap(enhanced)" >>

\* the sections of the output other than state_results are what the
\* assemblers give on the two samples, whatever the flag
SectionsFromSamples ==
    LET out == result.value
        programs == ComputeProgramEffects(sim.enhanced).value
    IN  /\ out.waterfall =
              PipelineWaterfall(CENSUS_PUBLISHED_CHILD_POVERTY_2024,
                                ComputeChildPovertyRate(sim.raw).value,
                                ComputeChildPovertyRate(sim.enhanced).value)
        /\ out.program_effects =
              [k \in DOMAIN programs |-> OutputProgram(programs[k])]
        /\ out.demographics = ComputeDemographicBreakdowns(sim.enhanced).value
        /\ \E raw_idx \in GroupingSorts(sim.raw),
              enh_idx \in GroupingSorts(sim.enhanced) :
              out.weight_rebalancing =
                 ComputeWeightRebalancing(sim.raw, sim.enhanced,
                                          raw_idx, enh_idx).value
        /\ \E sorted_idx \in
                 ArgSorts(sim.enhanced.spm_unit_total_income_reported) :
              LET gap == ComputeTaxGap(sim.enhanced, sorted_idx).value
              IN  out.tax_gap_by_decile =
                     [k \in DOMAIN gap |-> OutputDecile(gap[k])]

\* C20: with --skip-states compute_state_results is never called and
\* state_results is the empty list; with or without the flag the other
\* sections are computed by the same calls in the same order and hold what
\* the assemblers give on the two samples.
C20_SkipFlagLeavesOtherSections ==
    call.op = "main" =>
        /\ call.skip_states = ("--skip-states" \in sim.argv)
        /\ call.skip_states => "compute_state_results()" \notin Range(call.trace)
        /\ \A k \in DOMAIN call.trace :
              k <= Len(SectionCalls) => call.trace[k] = SectionCalls[k]
        /\ call.pc = "done" =>
              /\ result.status = "ok"
              /\ SectionsFromSamples
              /\ call.trace =
                    (IF call.skip_states THEN SectionCalls
                     ELSE Append(SectionCalls, "compute_state_results()"))
              /\ call.skip_states => result.value.state_results = <<>>

\* a run with the flag that completes although the dataset of the first
\* region does not load, with the eight programs and ten deciles in its
\* output
C20_Witness ==
    /\ call.op = "main" /\ call.pc = "done" /\ call.skip_states
    /\ ~sim.regions[1].load_ok
    /\ result.value.state_results = <<>>
    /\ Len(result.value.program_effects) = 8
    /\ Len(result.value.tax_gap_by_decile) = 10
    /\ Len(result.value.weight_rebalancing.groups) > 0

(***************************************************************************)
(* compute_weight_rebalancing on two samples of persons with incomes,      *)
(* weights, poverty flags and family structures.                           *)
(***************************************************************************)
\* one person: unit (SPM unit and tax unit alike), child flag, weight
RebalanceRows ==
    [unit : Range(SampleUnitIds), is_child : {0, 1}, weight : {0, 1, 2}]

\* the sample of the persons, with the reported incomes of the two units,
\* the tax_unit_is_joint values of the two tax units and the poverty flag
\* the members of each unit carry
RebalanceSample(persons, reported, joint, poor) ==
    LET spm_id_to_idx == IdToIdx(SampleUnitIds)
    IN  [PovertySample([p \in DOMAIN persons |->
                           [ unit |-> persons[p].unit,
                             is_child |-> persons[p].is_child,
                             weight |-> persons[p].weight,
                             in_poverty |->
                                 poor[spm_id_to_idx[persons[p].unit]] ]],
                       reported, {})
            EXCEPT !.tax_unit_id = SampleUnitIds,
                   !.person_tax_unit_id = Column(persons, "unit"),
                   !.tax_unit_is_joint = joint]

\* reported incomes, joint values and poverty flags of the units <<2, 1>>;
\* a joint value of 2 is outside the two family structures
RebalanceUnits ==
    { [reported |-> <<0, 2>>, joint |-> <<0, 1>>, poor |-> <<1, 0>>],
      [reported |-> <<1, 1>>, joint |-> <<1, 1>>, poor |-> <<1, 0>>],
      [reported |-> <<2, 0>>, joint |-> <<0, 2>>, poor |-> <<0, 1>>] }

\* the other sample of the call: two children in different groups, one
\* child, or a child without weight
OtherSamples ==
    { RebalanceSample(<< [unit |-> 1, is_child |-> 1, weight |-> 2],
                         [unit |-> 2, is_child |-> 1, weight |-> 1] >>,
                      <<2, 0>>, <<1, 0>>, <<0, 1>>),
      RebalanceSample(<< [unit |-> 2, is_child |-> 1, weight |-> 1] >>,
                      <<1, 1>>, <<1, 1>>, <<0, 0>>),
      RebalanceSample(<< [unit |-> 1, is_child |-> 1, weight |-> 0],
                         [unit |-> 1, is_child |-> 0, weight |-> 1] >>,
                      <<0, 2>>, <<0, 0>>, <<0, 1>>) }

InitRebalance ==
    /\ \E persons \in SeqsUpTo(RebalanceRows, MaxPersons),
          units \in RebalanceUnits,
          other \in OtherSamples :
          sim = [ sample |-> RebalanceSample(persons, units.reported,
                                             units.joint, units.poor),
                  other |-> other ]
    /\ call = NoCall
    /\ result = NoResult

\* compute_weight_rebalancing(raw_sim, enhanced_sim) with the sample as the
\* raw or as the enhanced one; the outcomes of the two sorts are kept with
\* the call
CallRebalancing ==
    /\ call.op = "none"
    /\ \E as_raw \in BOOLEAN :
          LET raw_sim == IF as_raw THEN sim.sample ELSE sim.other
              enhanced_sim == IF as_raw THEN sim.other ELSE sim.sample
          IN  \E raw_idx \in GroupingSorts(raw_sim),
                 enh_idx \in GroupingSorts(enhanced_sim) :
                 /\ call' = [ op |-> "compute_weight_rebalancing",
                              raw_sim |-> raw_sim,
                              enhanced_sim |-> enhanced_sim,
                              raw_idx |-> raw_idx, enh_idx |-> enh_idx ]
                 /\ result' = ComputeWeightRebalancing(raw_sim, enhanced_sim,
                                                       raw_idx, enh_idx)
    /\ UNCHANGED sim

NextRebalance == CallRebalancing

SpecRebalance == InitRebalance /\ [][NextRebalance]_vars

\* the total child weight of a sample
ChildWeight(s) == Sum(Mask(s.person_weight, ChildMask(s)))

JointFlagsBoolean(s) ==
    \A u \in DOMAIN s.tax_unit_is_joint : s.tax_unit_is_joint[u] \in {0, 1}

\* the ten groups of a sample before the merge and the filter
AllGroups(s, sorted_idx) ==
    ComputeGroupStats(s, GetPersonLevelGrouping(s, sorted_idx).value).value

\* the sum over the returned groups of one of their fields
ReturnedSum(field) ==
    LET groups == result.value.groups
    IN  RatSumTo([k \in DOMAIN groups |-> groups[k][field]], Len(groups))

Rebalanced == call.op = "compute_weight_rebalancing" /\ result.status = "ok"

\* C21: the child shares of a sample with positive child weight and joint
\* flags in {0,1} sum to 1 over the returned groups; the returned labels are
\* pairwise distinct and at most 10; a group is returned exactly when its
\* child share is positive in at least one of the two samples.
C21_SharesSumToOne ==
    Rebalanced =>
        LET groups == result.value.groups
            raw_all == AllGroups(call.raw_sim, call.raw_idx)
            enh_all == AllGroups(call.enhanced_sim, call.enh_idx)
        IN  /\ (ChildWeight(call.raw_sim) > 0 /\ JointFlagsBoolean(call.raw_sim))
                  => RatEq(ReturnedSum("raw_cps_child_share"), Rat(1, 1))
            /\ (ChildWeight(call.enhanced_sim) > 0
                   /\ JointFlagsBoolean(call.enhanced_sim))
                  => RatEq(ReturnedSum("enhanced_cps_child_share"), Rat(1, 1))
            /\ \A i, j \in DOMAIN groups :
                  groups[i].label = groups[j].label => i = j
            /\ Len(groups) <= 10
            /\ \A k \in DOMAIN raw_all :
                  (\E j \in DOMAIN groups : groups[j].label = raw_all[k].label)
                     <=> \/ RatLess(Zero, raw_all[k].child_share)
                         \/ RatLess(Zero, enh_all[k].child_share)

\* both samples have children with weight and boolean joint flags, three
\* groups are returned, and one of them has children in one sample only
C21_Witness ==
    /\ Rebalanced
    /\ ChildWeight(call.raw_sim) > 0 /\ JointFlagsBoolean(call.raw_sim)
    /\ ChildWeight(call.enhanced_sim) > 0
    /\ JointFlagsBoolean(call.enhanced_sim)
    /\ Len(result.value.groups) >= 3
    /\ \E k \in DOMAIN result.value.groups :
          /\ RatEq(result.value.groups[k].raw_cps_child_share, Zero)
          /\ RatLess(Zero, result.value.groups[k].enhanced_cps_child_share)

(***************************************************************************)
(* The assemblers that produce weighted means, on samples with flags in    *)
(* {0,1} and non-negative weights.                                         *)
(***************************************************************************)
\* net income and threshold of the units <<2, 1>>
RateUnits ==
    { << [net |-> 0, thr |-> 1], [net |-> 2, thr |-> 1] >>,
      << [net |-> 1, thr |-> 2], [net |-> 1, thr |-> 2] >>,
      << [net |-> 2, thr |-> 2], [net |-> 0, thr |-> 2] >>,
      << [net |-> 1, thr |-> 1], [net |-> 1, thr |-> 2] >> }

\* the sample of the effect engine with its tax units, both joint
RateSample(persons, units) ==
    [EffectSample(persons, units) EXCEPT
        !.tax_unit_id = SampleUnitIds,
        !.person_tax_unit_id = Column(persons, "unit"),
        !.tax_unit_is_joint = <<1, 1>>]

InitRates ==
    /\ \E persons \in SeqsUpTo(PersonRows, MaxPersons),
          units \in RateUnits :
          sim = RateSample(persons, units)
    /\ call = NoCall
    /\ result = NoResult

NextRates ==
    \/ CallChildPovertyRate
    \/ CallProgramEffect
    \/ CallWeightRebalancing

SpecRates == InitRates /\ [][NextRates]_vars

\* 0 <= x <= 1
InUnitInterval(x) == RatLeq(Zero, x) /\ RatLeq(x, Rat(1, 1))

\* C22: every rate produced as a weighted mean (computed and reported of
\* compute_child_poverty_rate, rate_with and rate_without of
\* _program_effect, the poverty rates of compute_weight_rebalancing) and
\* every child share of compute_weight_rebalancing lies in [0,1].
C22_RatesInUnitInterval ==
    result.status = "ok" =>
        /\ call.op = "compute_child_poverty_rate" =>
              /\ InUnitInterval(result.value.computed)
              /\ InUnitInterval(result.value.reported)
        /\ call.op = "_program_effect" =>
              /\ InUnitInterval(result.value.rate_with)
              /\ InUnitInterval(result.value.rate_without)
        /\ call.op = "compute_weight_rebalancing" =>
              \A k \in DOMAIN result.value.groups :
                 LET g == result.value.groups[k]
                 IN  /\ InUnitInterval(g.raw_cps_poverty_rate)
                     /\ InUnitInterval(g.enhanced_cps_poverty_rate)
                     /\ InUnitInterval(g.raw_cps_child_share)
                     /\ InUnitInterval(g.enhanced_cps_child_share)

\* a child of weight 2 beside a child of weight 1 gives a rate strictly
\* between 0 and 1
C22_Witness ==
    /\ call.op = "_program_effect" /\ result.status = "ok"
    /\ Sum(sim.person_weight) = 3
    /\ RatLess(Zero, result.value.rate_with)
    /\ RatLess(result.value.rate_with, Rat(1, 1))
    /\ RatLess(result.value.rate_with, result.value.rate_without)

(***************************************************************************)
(* _aggregate_person_to_spm followed by _map_spm_to_person on the same     *)
(* provider.                                                               *)
(***************************************************************************)
\* _map_spm_to_person(sim, _aggregate_person_to_spm(sim, person_vals))
RoundTrip(s, person_vals) ==
    LET spm_agg == AggregatePersonToSpm(s, person_vals)
    IN  IF spm_agg.status # "ok" THEN spm_agg
        ELSE [ status |-> MapSpmToPerson(s, spm_agg.value).status,
               spm_agg |-> spm_agg.value,
               value |-> MapSpmToPerson(s, spm_agg.value).value ]

CallRoundTrip ==
    /\ call.op = "none"
    /\ \E person_vals \in [1..Len(sim.person_spm_unit_id) -> Amounts] :
          /\ call' = [op |-> "round trip", person_vals |-> person_vals]
          /\ result' = RoundTrip(sim, person_vals)
    /\ UNCHANGED sim

NextRoundTrip == CallRoundTrip

SpecRoundTrip == InitUnit /\ [][NextRoundTrip]_vars

\* each person is the only member of its unit and the unit ids are unique
OneToOne ==
    /\ MappingTotal
    /\ UnitIdsUnique
    /\ \A p, q \in DOMAIN sim.person_spm_unit_id :
          sim.person_spm_unit_id[p] = sim.person_spm_unit_id[q] => p = q

\* C24: for a 1-to-1 person/unit mapping, mapping the result of
\* _aggregate_person_to_spm back to persons reproduces exactly the original
\* person-level values, whatever the order of the unit id table.
C24_RoundTrip ==
    (call.op = "round trip" /\ OneToOne) =>
        /\ result.status = "ok"
        /\ result.value = call.person_vals

\* two persons with different values whose units stand in the table in the
\* opposite order
C24_Witness ==
    /\ call.op = "round trip" /\ OneToOne
    /\ Len(sim.person_spm_unit_id) = 2
    /\ sim.spm_unit_id[1] = sim.person_spm_unit_id[2]
    /\ sim.spm_unit_id[2] = sim.person_spm_unit_id[1]
    /\ call.person_vals[1] # call.person_vals[2]
    /\ result.value = call.person_vals

(***************************************************************************)
(* Further properties of the weighted quantiles (SpecQuantile).            *)
(***************************************************************************)
\* some record carries positive weight and every record that does has the
\* value v
ConcentratedAt(v) ==
    /\ \E r \in DOMAIN call.values : call.weights[r] > 0
    /\ \A r \in DOMAIN call.values : call.weights[r] > 0 => call.values[r] = v

\* C25: if every record that carries positive weight has the value v, every
\* breakpoint returned by _weighted_quantiles equals v.
C25_DegenerateQuantile ==
    call.op = "_weighted_quantiles" =>
        \A r \in DOMAIN call.values :
           ConcentratedAt(call.values[r]) =>
              \A k \in DOMAIN result.value :
                 RatEq(result.value[k], RatOf(call.values[r]))

\* the orders in which n records can be given
Orders(n) ==
    {o \in [1..n -> 1..n] : \A i, j \in 1..n : o[i] = o[j] => i = j}

\* the breakpoints agree one by one
SameBreakpoints(a, b) ==
    /\ Len(a) = Len(b)
    /\ \A k \in DOMAIN a : RatEq(a[k], b[k])

\* C29: the breakpoints of _weighted_quantiles are the same for the records
\* given in any other order (values and weights permuted together),
\* whatever order the sort gives to records of equal value, and the buckets
\* of _assign_decile / _assign_quintile are permuted accordingly.
C29_PermutationInvariant ==
    /\ call.op = "_weighted_quantiles" =>
          \A o \in Orders(Len(call.values)) :
             \A sorted_idx \in ArgSorts(Take(call.values, o)) :
                SameBreakpoints(
                   WeightedQuantiles(Take(call.values, o),
                                     Take(call.weights, o),
                                     call.quantiles, sorted_idx),
                   result.value)
    /\ call.op = "_assign_decile" =>
          \A o \in Orders(Len(call.values)) :
             \A sorted_idx \in ArgSorts(Take(call.values, o)) :
                AssignDecile(Take(call.values, o), Take(call.weights, o),
                             sorted_idx).buckets
                   = Take(result.value.buckets, o)
    /\ call.op = "_assign_quintile" =>
          \A o \in Orders(Len(call.values)) :
             \A sorted_idx \in ArgSorts(Take(call.values, o)) :
                AssignQuintile(Take(call.values, o), Take(call.weights, o),
                               sorted_idx).buckets
                   = Take(result.value.buckets, o)

(***************************************************************************)
(* Arrays as objects: an array is either the object the provider holds for *)
(* one of its variables or a fresh object allocated by the operation, and  *)
(* a statement that writes into an array changes the provider when the     *)
(* array is the provider's.  Several assembler calls follow one another    *)
(* on the same provider.                                                   *)
(***************************************************************************)
MaxCalls == 2

\* an array allocated by the operation (np.zeros, np.array, a + b, a[mask])
Fresh(v) == [owner |-> "fresh", val |-> v]

\* sim.calc(var).values: the array object of the provider
Owned(s, var) == [owner |-> var, val |-> s[var]]

\* the provider after the operation wrote in place into the array x
Written(s, x) ==
    IF x.owner = "fresh" THEN s ELSE [s EXCEPT ![x.owner] = x.val]

\* free_meals += reduced_meals: the sum is written into the first array
MealsSumInPlace(free_meals, reduced_meals) ==
    [owner |-> free_meals.owner, val |-> Plus(free_meals.val, reduced_meals.val)]

\* meals_spm = free_meals + reduced_meals: the sum is a new array
MealsSum(free_meals, reduced_meals) ==
    Fresh(Plus(free_meals.val, reduced_meals.val))

\* the provider after _aggregate_person_to_spm(sim, person_vals): the loop
\* writes into spm_agg = np.zeros(len(spm_unit_id))
ProviderAfterAggregate(s, person_vals) ==
    LET spm_agg == AggregatePersonToSpm(s, person_vals)
    IN  IF spm_agg.status = "ok" THEN Written(s, Fresh(spm_agg.value)) ELSE s

\* the provider after _assign_decile / _assign_quintile: the loop writes
\* into decile = np.zeros(len(values), dtype=int)
ProviderAfterAssign(s, buckets) == Written(s, Fresh(buckets))

\* the provider after compute_program_effects: the aggregations of Social
\* Security, SSI and the two credits write into their own accumulators, and
\* the school meals are summed once the first four programs went through
ProviderAfterProgramEffects(s) ==
    LET thr_p == MapSpmToPerson(s, Calc(s, "spm_unit_spm_threshold"))
        net_p == MapSpmToPerson(s, Calc(s, "spm_unit_net_income"))
        four == RunPrograms(s, <<>>, 1, 4, net_p.value, thr_p.value)
        aggregated == ProviderAfterAggregate(
                         ProviderAfterAggregate(s, Calc(s, "social_security")),
                         Calc(s, "ssi"))
    IN  IF ~HasAll(s, <<"spm_unit_spm_threshold", "spm_unit_net_income">>)
           \/ thr_p.status # "ok"
        THEN s
        ELSE IF four.status # "ok"
                \/ ~HasAll(s, <<"free_school_meals",
                                "reduced_price_school_meals">>)
        THEN aggregated
        ELSE Written(aggregated,
                     MealsSum(Owned(s, "free_school_meals"),
                              Owned(s, "reduced_price_school_meals")))

\* the provider after compute_tax_gap: only the decile array is written
ProviderAfterTaxGap(s, sorted_idx) ==
    LET r == ComputeTaxGap(s, sorted_idx)
    IN  IF r.status = "VariableNotFound" THEN s
        ELSE ProviderAfterAssign(s, r.locals.deciles)

\* the provider after compute_weight_rebalancing on s and another sample:
\* only the quintile arrays are written
ProviderAfterRebalancing(s, sorted_idx) ==
    LET g == GetPersonLevelGrouping(s, sorted_idx)
    IN  IF g.status = "ok" THEN ProviderAfterAssign(s, g.value.quintiles)
        ELSE s

\* a sample holding every variable, with school meals in both forms and
\* Social Security paid to the first person
FrameSample(persons) ==
    [PipelineSample(persons) EXCEPT
        !.free_school_meals = <<1, 0>>,
        !.reduced_price_school_meals = <<1, 2>>,
        !.snap = <<2, 0>>,
        !.social_security = [p \in DOMAIN persons |-> IF p = 1 THEN 2 ELSE 0]]

InitFrame ==
    /\ \E persons \in SeqsUpTo(SoundRows, MaxPersons) :
          sim = FrameSample(persons)
    /\ call = NoCall
    /\ result = NoResult

FrameOps ==
    { "compute_child_poverty_rate", "compute_program_effects",
      "compute_tax_gap", "compute_weight_rebalancing" }

\* the assembler op ran on the provider, gave outcome and left the provider
\* as after; the provider before the first call and the first outcome of
\* each assembler are remembered
FrameCall(op, outcome, after) ==
    LET n == IF call.op = "none" THEN 0 ELSE call.n
        before == IF call.op = "none" THEN sim ELSE call.before
        first == IF call.op = "none"
                 THEN [o \in FrameOps |-> NoResult] ELSE call.first
    IN  /\ n < MaxCalls
        /\ call' = [ op |-> op, n |-> n + 1, before |-> before,
                     first |-> IF first[op] = NoResult
                               THEN [first EXCEPT ![op] = outcome]
                               ELSE first ]
        /\ result' = outcome
        /\ sim' = after

FramePoverty ==
    FrameCall("compute_child_poverty_rate", ComputeChildPovertyRate(sim), sim)

FrameProgramEffects ==
    \E r \in {ComputeProgramEffects(sim)} :
       FrameCall("compute_program_effects", r,
                 ProviderAfterProgramEffects(sim))

FrameTaxGap ==
    \E sorted_idx \in ArgSorts(sim.spm_unit_total_income_reported) :
       \E r \in {ComputeTaxGap(sim, sorted_idx)} :
          FrameCall("compute_tax_gap", [status |-> r.status],
                    ProviderAfterTaxGap(sim, sorted_idx))

FrameRebalancing ==
    \E raw_idx \in GroupingSorts(SoundSample),
       enh_idx \in GroupingSorts(sim) :
       \E r \in {ComputeWeightRebalancing(SoundSample, sim, raw_idx, enh_idx)} :
          FrameCall("compute_weight_rebalancing", [status |-> r.status],
                    ProviderAfterRebalancing(sim, enh_idx))

NextFrame ==
    \/ FramePoverty
    \/ FrameProgramEffects
    \/ FrameTaxGap
    \/ FrameRebalancing

SpecFrame == InitFrame /\ [][NextFrame]_vars

\* C26: after any sequence of assembler calls on a sample every provider
\* array has the value it had before the first call, and an assembler
\* called again returns what it returned the first time.
C26_ProviderUnchanged ==
    call.op \in FrameOps =>
        /\ sim = call.before
        /\ call.op \in {"compute_child_poverty_rate", "compute_program_effects"}
              => result = call.first[call.op]

\* compute_program_effects ran twice on a sample with school meals, Social
\* Security and a child that has weight, and returned its eight records
\* both times
C26_Witness ==
    /\ call.op = "compute_program_effects" /\ call.n = 2
    /\ call.first["compute_program_effects"].status = "ok"
    /\ result.status = "ok"
    /\ Len(result.value) = 8
    /\ sim.reduced_price_school_meals = <<1, 2>>
    /\ result.value[5].program = "school_meals"
    /\ RatLess(Zero, result.value[5].total_benefit_B)

(***************************************************************************)
(* _sum_tax_units_to_spm applied to the EITC of a sample whose persons     *)
(* belong to a tax unit and to an SPM unit.                                *)
(***************************************************************************)
CallSumTaxUnits ==
    /\ call.op = "none"
    /\ call' = [op |-> "_sum_tax_units_to_spm", tu_var_name |-> "eitc"]
    /\ result' = SumTaxUnitsToSpm(sim, "eitc")
    /\ UNCHANGED sim

NextTaxUnits == CallSumTaxUnits

SpecTaxUnits == InitFaults /\ [][NextTaxUnits]_vars

\* the rows of the tax units that have a member in the SPM unit of row u
TaxUnitsIn(u) ==
    {k \in DOMAIN sim.tax_unit_id :
        \E p \in DOMAIN sim.person_tax_unit_id :
           /\ sim.person_tax_unit_id[p] = sim.tax_unit_id[k]
           /\ sim.person_spm_unit_id[p] = sim.spm_unit_id[u]}

\* every person's ids are in the tables and the members of a tax unit all
\* belong to the same SPM unit
TaxUnitsNested ==
    /\ \A p \in DOMAIN sim.person_tax_unit_id :
          /\ sim.person_tax_unit_id[p] \in Range(sim.tax_unit_id)
          /\ sim.person_spm_unit_id[p] \in Range(sim.spm_unit_id)
    /\ \A p, q \in DOMAIN sim.person_tax_unit_id :
          sim.person_tax_unit_id[p] = sim.person_tax_unit_id[q]
             => sim.person_spm_unit_id[p] = sim.person_spm_unit_id[q]

\* the sum of the values at the rows of S
RECURSIVE SumOver(_, _)
SumOver(values, S) ==
    IF S = {} THEN 0
    ELSE LET k == CHOOSE k \in S : TRUE
         IN  values[k] + SumOver(values, S \ {k})

\* C27: _sum_tax_units_to_spm gives every SPM unit the sum of the values of
\* the tax units contained in it, each tax unit counted once whatever the
\* number of its members.
C27_TaxUnitCountedOnce ==
    (call.op = "_sum_tax_units_to_spm" /\ TaxUnitsNested) =>
        /\ result.status = "ok"
        /\ \A u \in DOMAIN sim.spm_unit_id :
              result.value[u] = SumOver(sim.eitc, TaxUnitsIn(u))

(***************************************************************************)
(* run_decomposition, one step per statement, on what the two loaders and  *)
(* the datasets of the regions give.                                       *)
(***************************************************************************)
\* what a loader gives: a provider, or an exception
Loaded(s) == [load_ok |-> TRUE, sim |-> s]

LoadFailure == [load_ok |-> FALSE, sim |-> EmptySim]

InitDecomposition ==
    /\ \E raw \in {Loaded(s) : s \in RawSamples} \cup {LoadFailure},
          enhanced \in {Loaded(PipelineSample(persons)) :
                           persons \in SeqsUpTo(SoundRows, MaxPersons)}
                          \cup {LoadFailure},
          regions \in RegionLists :
          sim = [raw |-> raw, enhanced |-> enhanced, regions |-> regions]
    /\ call = NoCall
    /\ result = NoResult

\* the local variables of run_decomposition before they are assigned
NoDecompositionLocals ==
    [ raw_poverty |-> "unset", enhanced_poverty |-> "unset",
      weight_rebalancing |-> "unset", raw_tax_gap |-> "unset",
      enhanced_tax_gap |-> "unset", state_results |-> "unset",
      waterfall |-> "unset" ]

\* the statement that follows the tax gap of the enhanced sample is the
\* waterfall: the state results are left out
NextStepWithoutStates(step) ==
    CASE step = "load_raw" -> "load_enhanced"
      [] step = "load_enhanced" -> "poverty_raw"
      [] step = "poverty_raw" -> "poverty_enhanced"
      [] step = "poverty_enhanced" -> "weight_rebalancing"
      [] step = "weight_rebalancing" -> "tax_gap_raw"
      [] step = "tax_gap_raw" -> "tax_gap_enhanced"
      [] step = "tax_gap_enhanced" -> "waterfall"
      [] step = "state_results" -> "waterfall"
      [] step = "waterfall" -> "return"

\* the statement of run_decomposition that follows a statement
NextStep(step) ==
    CASE step = "load_raw" -> "load_enhanced"
      [] step = "load_enhanced" -> "poverty_raw"
      [] step = "poverty_raw" -> "poverty_enhanced"
      [] step = "poverty_enhanced" -> "weight_rebalancing"
      [] step = "weight_rebalancing" -> "tax_gap_raw"
      [] step = "tax_gap_raw" -> "tax_gap_enhanced"
      [] step = "tax_gap_enhanced" -> "state_results"
      [] step = "state_results" -> "waterfall"
      [] step = "waterfall" -> "return"

AtDecomposition(step) ==
    /\ call.op = "run_decomposition"
    /\ call.pc = step
    /\ result.status = "running"

\* the statement ran and gave outcome; the local variables become locals
\* when it did not raise, and an exception leaves the function
DecompositionStep(step, outcome, locals) ==
    /\ AtDecomposition(step)
    /\ call' = [call EXCEPT
                   !.pc = IF outcome.status = "ok" THEN NextStep(step)
                          ELSE "failed",
                   !.trace = Append(@, step)]
    /\ result' = IF outcome.status = "ok"
                 THEN [result EXCEPT !.locals = locals]
                 ELSE [status |-> outcome.status]
    /\ UNCHANGED sim

\* run_decomposition(period) is entered
StartDecomposition ==
    /\ call.op = "none"
    /\ call' = [op |-> "run_decomposition", pc |-> "load_raw", trace |-> <<>>]
    /\ result' = [status |-> "running", locals |-> NoDecompositionLocals]
    /\ UNCHANGED sim

\* raw_sim = _load_raw_cps_sim()
LoadRaw ==
    /\ AtDecomposition("load_raw")
    /\ DecompositionStep("load_raw",
                         IF sim.raw.load_ok THEN Ok(<<>>) ELSE Raise("LoadError"),
                         result.locals)

\* enhanced_sim = _load_enhanced_cps_sim()
LoadEnhanced ==
    /\ AtDecomposition("load_enhanced")
    /\ DecompositionStep("load_enhanced",
                         IF sim.enhanced.load_ok THEN Ok(<<>>)
                         ELSE Raise("LoadError"),
                         result.locals)

PovertyRaw ==
    /\ AtDecomposition("poverty_raw")
    /\ \E r \in {ComputeChildPovertyRate(sim.raw.sim)} :
          DecompositionStep("poverty_raw", [status |-> r.status],
                            [result.locals EXCEPT !.raw_poverty = r.value])

PovertyEnhanced ==
    /\ AtDecomposition("poverty_enhanced")
    /\ \E r \in {ComputeChildPovertyRate(sim.enhanced.sim)} :
          DecompositionStep("poverty_enhanced", [status |-> r.status],
                            [result.locals EXCEPT !.enhanced_poverty = r.value])

WeightRebalancing ==
    /\ AtDecomposition("weight_rebalancing")
    /\ \E raw_idx \in GroupingSorts(sim.raw.sim),
          enh_idx \in GroupingSorts(sim.enhanced.sim) :
          \E r \in {ComputeWeightRebalancing(sim.raw.sim, sim.enhanced.sim,
                                             raw_idx, enh_idx)} :
             DecompositionStep("weight_rebalancing", [status |-> r.status],
                               [result.locals EXCEPT
                                   !.weight_rebalancing = r.value])

TaxGapRaw ==
    /\ AtDecomposition("tax_gap_raw")
    /\ \E sorted_idx \in ArgSorts(sim.raw.sim.spm_unit_total_income_reported) :
          \E r \in {ComputeTaxGap(sim.raw.sim, sorted_idx)} :
             DecompositionStep("tax_gap_raw", [status |-> r.status],
                               [result.locals EXCEPT !.raw_tax_gap = r.value])

TaxGapEnhanced ==
    /\ AtDecomposition("tax_gap_enhanced")
    /\ \E sorted_idx \in
             ArgSorts(sim.enhanced.sim.spm_unit_total_income_reported) :
          \E r \in {ComputeTaxGap(sim.enhanced.sim, sorted_idx)} :
             DecompositionStep("tax_gap_enhanced", [status |-> r.status],
                               [result.locals EXCEPT
                                   !.enhanced_tax_gap = r.value])

StateResults ==
    /\ AtDecomposition("state_results")
    /\ \E r \in {ComputeStateResults(Regions, sim.regions)} :
          DecompositionStep("state_results", [status |-> r.status],
                            [result.locals EXCEPT !.state_results = r.value])

Waterfall ==
    /\ AtDecomposition("waterfall")
    /\ DecompositionStep(
          "waterfall", Ok(<<>>),
          [result.locals EXCEPT !.waterfall =
              BuildWaterfall(CENSUS_PUBLISHED_CHILD_POVERTY_2024,
                             result.locals.raw_poverty,
                             result.locals.enhanced_poverty)])

\* return {...}
ReturnDecomposition ==
    /\ AtDecomposition("return")
    /\ call' = [call EXCEPT !.pc = "done"]
    /\ result' =
          [ status |-> "ok",
            value |->
              [ census_benchmark |-> CENSUS_PUBLISHED_CHILD_POVERTY_2024,
                raw_cps_poverty |-> result.locals.raw_poverty,
                enhanced_cps_poverty |-> result.locals.enhanced_poverty,
                weight_rebalancing |-> result.locals.weight_rebalancing,
                raw_cps_tax_gap |-> result.locals.raw_tax_gap,
                enhanced_cps_tax_gap |-> result.locals.enhanced_tax_gap,
                waterfall |-> result.locals.waterfall,
                state_results |-> result.locals.state_results ] ]
    /\ UNCHANGED sim

NextDecomposition ==
    \/ StartDecomposition
    \/ LoadRaw
    \/ LoadEnhanced
    \/ PovertyRaw
    \/ PovertyEnhanced
    \/ WeightRebalancing
    \/ TaxGapRaw
    \/ TaxGapEnhanced
    \/ StateResults
    \/ Waterfall
    \/ ReturnDecomposition

SpecDecomposition == InitDecomposition /\ [][NextDecomposition]_vars

\* the order the claim gives to the steps
ClaimedOrder ==
    << "load_raw", "load_enhanced", "poverty_raw", "poverty_enhanced",
       "weight_rebalancing", "tax_gap_raw", "tax_gap_enhanced",
       "state_results", "waterfall" >>

ResultKeys ==
    { "census_benchmark", "raw_cps_poverty", "enhanced_cps_poverty",
      "weight_rebalancing", "raw_cps_tax_gap", "enhanced_cps_tax_gap",
      "waterfall", "state_results" }

\* C28: the steps of run_decomposition run one at a time in the order raw
\* load, enhanced load, poverty(raw), poverty(enhanced), weight
\* rebalancing, tax gap(raw), tax gap(enhanced), state results, waterfall;
\* no assembler runs before both loads succeeded; a result is returned only
\* after all of them completed, with exactly the eight keys; a failure in
\* any step yields no result.
C28_FixedOrder ==
    call.op = "run_decomposition" =>
        /\ Len(call.trace) <= Len(ClaimedOrder)
        /\ \A k \in DOMAIN call.trace : call.trace[k] = ClaimedOrder[k]
        /\ Len(call.trace) > 2 => sim.raw.load_ok /\ sim.enhanced.load_ok
        /\ "value" \in DOMAIN result =>
              /\ result.status = "ok"
              /\ call.trace = ClaimedOrder
              /\ DOMAIN result.value = ResultKeys
        /\ call.pc = "failed" =>
              /\ "value" \notin DOMAIN result
              /\ result.status \notin {"ok", "running"}
              /\ Len(call.trace) > 0

\* a run that returned its result after the nine steps, with a record for
\* each region
C28_Witness ==
    /\ call.op = "run_decomposition" /\ call.pc = "done"
    /\ result.status = "ok"
    /\ call.trace = ClaimedOrder
    /\ Len(result.value.state_results) = Len(Regions)
    /\ Len(result.value.enhanced_cps_tax_gap) = 10
    /\ Len(result.value.waterfall) = 5

(***************************************************************************)
(* compute_program_effects on samples with credits, the provider knowing   *)
(* the refundable CTC or not.                                              *)
(***************************************************************************)
InitProgramList ==
    /\ \E persons \in SeqsUpTo(ProgramPersonRows, MaxPersons),
          units \in RateUnits,
          eitc \in [DOMAIN SampleUnitIds -> Credits],
          rctc \in [DOMAIN SampleUnitIds -> Credits],
          missing \in {{}, {"refundable_ctc"}} :
          sim = Without(ProgramSample(persons, units, eitc, rctc), missing)
    /\ call = NoCall
    /\ result = NoResult

NextProgramList == CallComputeProgramEffects

SpecProgramList == InitProgramList /\ [][NextProgramList]_vars

\* the order of the records the claim gives
ClaimedPrograms ==
    << "snap", "social_security", "ssi", "housing", "school_meals", "eitc",
       "refundable_ctc", "refundable_credits" >>

\* (rate_without - rate_with) x w
RateSwingTimes(r, w) ==
    LET swing == RatSub(r.rate_without, r.rate_with)
    IN  Rat(swing.n * w, swing.d)

\* C30: on a sample with positive total child weight compute_program_effects
\* returns its records in the order snap, social_security, ssi, housing,
\* school_meals, eitc, then refundable_ctc and refundable_credits, which
\* are both present or both absent (8 records or 6, never 7), and in every
\* record children_lifted = (rate_without - rate_with) x total child
\* weight.
C30_ProgramOrder ==
    (call.op = "compute_program_effects" /\ ChildWeight(sim) > 0) =>
        /\ result.status = "ok"
        /\ Len(result.value) \in {6, 8}
        /\ Len(result.value) = 8 <=> Has(sim, "refundable_ctc")
        /\ \A k \in DOMAIN result.value :
              /\ result.value[k].program = ClaimedPrograms[k]
              /\ RatEq(Rat(result.value[k].children_lifted, 1),
                       RateSwingTimes(result.value[k], ChildWeight(sim)))

\* the provider does not know the refundable CTC: six records, the EITC
\* lifting a child out of poverty
C30_Witness ==
    /\ call.op = "compute_program_effects" /\ ChildWeight(sim) > 0
    /\ ~Has(sim, "refundable_ctc")
    /\ result.status = "ok"
    /\ Len(result.value) = 6
    /\ result.value[6].program = "eitc"
    /\ result.value[6].children_lifted > 0

====
